---- MODULE Spec2Model ----
(***************************************************************************)
(* Model of the scoring, threshold, baseline and trend-ledger core of      *)
(* scripts/review-session.py.                                               *)
(*                                                                         *)
(* Numbers.  TLC has integers only, so every float of the script is kept   *)
(* as an exact integer in a fixed unit:                                    *)
(*   tokens, messages, tool calls, retries     units                       *)
(*   estimated_cost_usd and cost limits        micro-dollars (1e-6 USD),   *)
(*                                             the precision the collector *)
(*                                             rounds the cost to          *)
(*   repeated_context_ratio                    thousandths (round(.., 3))  *)
(*   source_reliability                        hundredths                  *)
(*   minutes                                   hundredths of a minute      *)
(*   scores and every value rounded with round(.., 2)   hundredths         *)
(* round(x, n) is Round on the exact quotient.  Where the exact value lies *)
(* halfway between two results, the float the script holds is a hair above *)
(* or below it and round() goes with the float; the integers of this model *)
(* do not carry that error, so the direction is the variable `ties`: the   *)
(* set of rounded fields whose halfway values go up, chosen freely at the  *)
(* start of a behaviour.                                                   *)
(*                                                                         *)
(* None is the empty tuple << >> and a present value v is << v >>.          *)
(* A dict is a function; d.get(k, default) is Get(d, k, default).          *)
(***************************************************************************)
EXTENDS Integers, Sequences, FiniteSets, TLC

VARIABLES
    trend,      \* the trend CSV file: [exists, fields, rows]
    pc,         \* per invocation: the step of main/append_trend_row it is at
    frame,      \* per invocation: its local variables
    hist,       \* history of the ledger runs (what was stored, what was appended)
    call,       \* the arguments of the pure function under evaluation
    ret,        \* what the function returned (None before the call)
    ties        \* the rounded fields whose exact halfway values round() takes up

vars == <<trend, pc, frame, hist, call, ret, ties>>

None == << >>
Some(v) == << v >>
IsNone(o) == o = << >>
The(o) == o[1]

Get(d, k, default) == IF k \in DOMAIN d THEN d[k] ELSE default

Min(a, b) == IF a <= b THEN a ELSE b
Max(a, b) == IF a >= b THEN a ELSE b
Abs(a) == IF a >= 0 THEN a ELSE 0 - a

\* The fields the script rounds.
RoundedFields ==
    {"budget", "efficiency", "reliability", "quality_estimate", "composite",
     "baseline_median", "delta", "delta_percent"}

\* round() for the value n/d of a field (d > 0): the nearest integer, an exact
\* halfway value going up when the field is in `ties` and down otherwise.
Round(n, d, field) ==
    LET q == n \div d
        r == n % d
    IN  IF 2 * r < d THEN q
        ELSE IF 2 * r > d THEN q + 1
        ELSE IF field \in ties THEN q + 1 ELSE q

\* Mutant of clamp: the upper bound is applied, the lower one is not.
clamp_NoFloor(v, lo, hi) == Min(hi, v)

clamp(v, lo, hi) == Max(lo, Min(hi, v))

(***************************************************************************)
(* build_budget                                                            *)
(***************************************************************************)

\* current/limit*100 rounded to 2 decimals, in hundredths of a percent (limit > 0).
\* Mutant of PercentOfBudget: the ratio, not multiplied by 100.
PercentOfBudget_Ratio(current, limit) ==
    (current \div limit) * 100 + Round((current % limit) * 100, limit, "budget")

PercentOfBudget(current, limit) ==
    (current \div limit) * 10000 + Round((current % limit) * 10000, limit, "budget")

\* Mutant of HasTimeCheck: a positive timebox alone makes a time check.
HasTimeCheck_TimeboxOnly(a) ==
    /\ ~IsNone(a.timebox_minutes)
    /\ The(a.timebox_minutes) > 0

\* The guard of the time check: both values supplied, and a positive timebox.
HasTimeCheck(a) ==
    /\ ~IsNone(a.elapsed_minutes)
    /\ ~IsNone(a.timebox_minutes)
    /\ The(a.timebox_minutes) > 0

\* has_budget: any of the four options was given.
HasBudget(a) ==
    \E k \in {"max_tokens", "max_cost_usd", "timebox_minutes", "elapsed_minutes"} :
        ~IsNone(a[k])

\* args: [max_tokens, max_cost_usd, timebox_minutes, elapsed_minutes], each None or Some.
build_budget(summary, a) ==
    LET has_budget == HasBudget(a)
        total == summary["total_tokens"]
        usage0 == [k \in {"total_tokens", "uncached_tokens"} |->
                      IF k = "total_tokens" THEN total
                      ELSE Get(summary, "uncached_tokens", total)]
        extra == {k \in {"cache_creation_tokens", "cache_read_tokens", "estimated_cost_usd"} :
                      k \in DOMAIN summary}
        usage1 == [k \in DOMAIN usage0 \cup extra |->
                      IF k \in DOMAIN usage0 THEN usage0[k] ELSE summary[k]]
        usage == IF IsNone(a.elapsed_minutes) THEN usage1
                 ELSE [k \in DOMAIN usage1 \cup {"elapsed_minutes"} |->
                          IF k = "elapsed_minutes" THEN The(a.elapsed_minutes) ELSE usage1[k]]
        \* tokens
        has_tok == ~IsNone(a.max_tokens)
        max_tok == IF has_tok THEN The(a.max_tokens) ELSE 0
        tok_pct == IF max_tok > 0 THEN PercentOfBudget(total, max_tok) ELSE 0
        tok_over == Max(0, total - max_tok)
        \* cost
        has_cost == ~IsNone(a.max_cost_usd)
        max_cost == IF has_cost THEN The(a.max_cost_usd) ELSE 0
        est_cost == Get(summary, "estimated_cost_usd", 0)
        cost_pct == IF max_cost > 0 THEN PercentOfBudget(est_cost, max_cost) ELSE 0
        cost_over == Max(0, est_cost - max_cost)
        \* time
        has_box == ~IsNone(a.timebox_minutes)
        has_time == HasTimeCheck(a)
        box == IF has_box THEN The(a.timebox_minutes) ELSE 0
        elapsed == IF IsNone(a.elapsed_minutes) THEN 0 ELSE The(a.elapsed_minutes)
        time_pct == IF has_time THEN PercentOfBudget(elapsed, box) ELSE 0
        time_over == Max(0, elapsed - box)
        warnings == (IF has_tok /\ tok_over > 0 THEN <<"Token budget exceeded">> ELSE << >>)
                    \o (IF has_cost /\ cost_over > 0 THEN <<"Cost budget exceeded">> ELSE << >>)
                    \o (IF has_time /\ time_over > 0 THEN <<"Time budget exceeded">> ELSE << >>)
        ckeys == (IF has_tok THEN {"max_tokens"} ELSE {})
                 \cup (IF has_cost THEN {"max_cost_usd"} ELSE {})
                 \cup (IF has_box THEN {"timebox_minutes"} ELSE {})
        constraints == [k \in ckeys |->
                           IF k = "max_tokens" THEN max_tok
                           ELSE IF k = "max_cost_usd" THEN max_cost ELSE box]
        akeys == (IF has_tok THEN {"tokens_percent_of_budget", "tokens_over_budget"} ELSE {})
                 \cup (IF has_cost THEN {"cost_percent_of_budget", "cost_over_budget_usd"} ELSE {})
                 \cup (IF has_time THEN {"time_percent_of_budget", "minutes_over_budget"} ELSE {})
        numbers == [k \in akeys |->
                       CASE k = "tokens_percent_of_budget" -> tok_pct
                         [] k = "tokens_over_budget" -> tok_over
                         [] k = "cost_percent_of_budget" -> cost_pct
                         [] k = "cost_over_budget_usd" -> cost_over
                         [] k = "time_percent_of_budget" -> time_pct
                         [] OTHER -> time_over]
    IN  IF ~has_budget THEN None
        ELSE Some([constraints |-> constraints,
                   usage       |-> usage,
                   adherence   |-> [warnings |-> warnings, numbers |-> numbers]])

(***************************************************************************)
(* score_summary                                                           *)
(*                                                                         *)
(* The four scores are computed exactly, as integers in the unit           *)
(* 1/ScoreUnit(messages) of a point, ScoreUnit = 10000 * max(1, messages): *)
(* every term of the formulas is a whole number of that unit.  A penalty   *)
(* that reached its cap is taken at the cap before it is multiplied out.   *)
(***************************************************************************)

\* max(1.0, float(summary.get("messages", 0) or 0))
MessagesOrOne(summary) == Max(1, Get(summary, "messages", 0))

ScoreUnit(summary) == 10000 * MessagesOrOne(summary)

\* min(40.0, (effective_tokens / 20000.0) * 40.0),
\* effective_tokens = uncached_tokens + cache_read_tokens * 0.1
TokenPenalty(summary) ==
    LET D == ScoreUnit(summary)
        M == MessagesOrOne(summary)
        uncached == Get(summary, "uncached_tokens", summary["total_tokens"])
        cache_read == Get(summary, "cache_read_tokens", 0)
        eff10 == 10 * uncached + cache_read     \* effective_tokens * 10
    IN  IF eff10 >= 200000 THEN 40 * D ELSE eff10 * 2 * M

\* Mutant of PerMessagePenalty: the average is taken over total_tokens
\* (avg_tokens_per_message) instead of uncached_tokens.
PerMessagePenalty_TotalAvg(summary) ==
    LET D == ScoreUnit(summary)
        M == MessagesOrOne(summary)
        total == summary["total_tokens"]
        over == total - 250 * M
    IN  IF over >= 500 * M THEN 20 * D ELSE Max(0, over) * 400

\* min(20.0, max(0.0, (uncached_avg_tpm - 250.0) / 500.0 * 20.0)),
\* uncached_avg_tpm = uncached_tokens / max(1.0, messages)
PerMessagePenalty(summary) ==
    LET D == ScoreUnit(summary)
        M == MessagesOrOne(summary)
        uncached == Get(summary, "uncached_tokens", summary["total_tokens"])
        over == uncached - 250 * M              \* (uncached_avg_tpm - 250) * M
    IN  IF over >= 500 * M THEN 20 * D ELSE Max(0, over) * 400

\* min(20.0, retry_loops * 6.0)
RetryPenalty(summary) ==
    ScoreUnit(summary) * Min(20, Get(summary, "retry_loops", 0) * 6)

\* Mutant of ToolPenalty: from 35 tool calls on, the penalty is waived.
ToolPenalty_Waived(summary) ==
    LET extra == Max(0, Get(summary, "tool_calls", 0) - 15)
    IN  IF extra >= 20 THEN 0
        ELSE extra * 5000 * MessagesOrOne(summary)

\* min(10.0, max(0.0, tool_calls - 15.0) * 0.5)
ToolPenalty(summary) ==
    LET extra == Max(0, Get(summary, "tool_calls", 0) - 15)
    IN  IF extra >= 20 THEN 10 * ScoreUnit(summary)
        ELSE extra * 5000 * MessagesOrOne(summary)

\* repeated * 10.0
RepeatPenalty(summary) ==
    Get(summary, "repeated_context_ratio", 0) * 100 * MessagesOrOne(summary)

\* The three budget terms of score_summary (0 without a budget).
BudgetPenalty(summary, budget) ==
    LET D == ScoreUnit(summary)
        M == MessagesOrOne(summary)
        adh == IF IsNone(budget) THEN << >> ELSE The(budget).adherence.numbers
        over_tokens == Get(adh, "tokens_over_budget", 0)
        over_cost == Get(adh, "cost_over_budget_usd", 0)
        over_minutes == Get(adh, "minutes_over_budget", 0)
        \* min(20.0, over_tokens / 1000.0 * 4.0)
        p_tokens == IF over_tokens >= 5000 THEN 20 * D ELSE over_tokens * 40 * M
        \* min(10.0, over_cost * 100.0)
        p_cost == IF over_cost >= 100000 THEN 10 * D ELSE over_cost * M
        \* min(10.0, over_minutes / 10.0 * 5.0)
        p_minutes == IF over_minutes >= 2000 THEN 10 * D ELSE over_minutes * 50 * M
    IN  IF IsNone(budget) THEN 0 ELSE p_tokens + p_cost + p_minutes

\* eff after clamp, before round: in 1/ScoreUnit points.
EfficiencyExact(summary, budget) ==
    LET D == ScoreUnit(summary)
    IN  clamp(100 * D - TokenPenalty(summary) - PerMessagePenalty(summary)
                      - RetryPenalty(summary) - ToolPenalty(summary)
                      - RepeatPenalty(summary) - BudgetPenalty(summary, budget),
              0, 100 * D)

\* rel after clamp: source_reliability * 80 + has_token_signal * 20.
ReliabilityExact(summary, source_reliability) ==
    LET D == ScoreUnit(summary)
        M == MessagesOrOne(summary)
        has_token_signal == IF summary["total_tokens"] > 0 THEN 1 ELSE 0
    IN  clamp(source_reliability * 8000 * M + has_token_signal * 20 * D, 0, 100 * D)

\* quality_est after clamp: 100 - retry_loops * 8 - repeated * 25.
QualityExact(summary) ==
    LET D == ScoreUnit(summary)
        M == MessagesOrOne(summary)
    IN  clamp(100 * D - Get(summary, "retry_loops", 0) * 8 * D
                      - Get(summary, "repeated_context_ratio", 0) * 250 * M,
              0, 100 * D)

\* composite after clamp, in 1/(20 * ScoreUnit) points:
\* 0.45 * quality_est + 0.35 * eff + 0.20 * rel.
CompositeExact(summary, budget, source_reliability) ==
    LET D == ScoreUnit(summary)
    IN  clamp(9 * QualityExact(summary) + 7 * EfficiencyExact(summary, budget)
                  + 4 * ReliabilityExact(summary, source_reliability),
              0, 2000 * D)

\* Mutant of confidence: 10000 tokens are enough for "high".
confidence_Inclusive(summary, source_reliability) ==
    LET total == summary["total_tokens"]
    IN  IF source_reliability >= 90 /\ total >= 10000 THEN "high"
        ELSE IF source_reliability >= 75 /\ total > 0 THEN "medium"
        ELSE "low"

confidence(summary, source_reliability) ==
    LET total == summary["total_tokens"]
    IN  IF source_reliability >= 90 /\ total > 10000 THEN "high"
        ELSE IF source_reliability >= 75 /\ total > 0 THEN "medium"
        ELSE "low"

score_summary(summary, budget, source_reliability) ==
    LET M == MessagesOrOne(summary)
    IN  [efficiency       |-> Round(EfficiencyExact(summary, budget), 100 * M, "efficiency"),
         reliability      |-> Round(ReliabilityExact(summary, source_reliability), 100 * M, "reliability"),
         quality_estimate |-> Round(QualityExact(summary), 100 * M, "quality_estimate"),
         composite        |-> Round(CompositeExact(summary, budget, source_reliability),
                                            2000 * M, "composite"),
         confidence       |-> confidence(summary, source_reliability),
         score_method     |-> "tool-integrated-v2-uncached-weighted"]

(***************************************************************************)
(* run_type_thresholds, evaluate_run                                       *)
(***************************************************************************)

\* Mutant of run_type_thresholds: the workflow limits are the loosest,
\* and the real ones are what the workflow ones were.
run_type_thresholds_Swapped(run_type) ==
    IF run_type = "smoke" THEN
        [warn_uncached_tokens |-> 50,       fail_uncached_tokens |-> 500,
         warn_cost_usd        |-> 20000,    fail_cost_usd        |-> 50000,
         warn_retry_loops     |-> 1,        fail_retry_loops     |-> 2]
    ELSE IF run_type = "workflow" THEN
        [warn_uncached_tokens |-> 120000,   fail_uncached_tokens |-> 300000,
         warn_cost_usd        |-> 20000000, fail_cost_usd        |-> 50000000,
         warn_retry_loops     |-> 4,        fail_retry_loops     |-> 8]
    ELSE
        [warn_uncached_tokens |-> 50000,    fail_uncached_tokens |-> 120000,
         warn_cost_usd        |-> 10000000, fail_cost_usd        |-> 25000000,
         warn_retry_loops     |-> 3,        fail_retry_loops     |-> 6]

\* Cost limits in micro-dollars (0.02 USD = 20000).
run_type_thresholds(run_type) ==
    IF run_type = "smoke" THEN
        [warn_uncached_tokens |-> 50,       fail_uncached_tokens |-> 500,
         warn_cost_usd        |-> 20000,    fail_cost_usd        |-> 50000,
         warn_retry_loops     |-> 1,        fail_retry_loops     |-> 2]
    ELSE IF run_type = "workflow" THEN
        [warn_uncached_tokens |-> 50000,    fail_uncached_tokens |-> 120000,
         warn_cost_usd        |-> 10000000, fail_cost_usd        |-> 25000000,
         warn_retry_loops     |-> 3,        fail_retry_loops     |-> 6]
    ELSE
        [warn_uncached_tokens |-> 120000,   fail_uncached_tokens |-> 300000,
         warn_cost_usd        |-> 20000000, fail_cost_usd        |-> 50000000,
         warn_retry_loops     |-> 4,        fail_retry_loops     |-> 8]

\* Mutant of add_check: a value equal to a limit trips it.
add_check_Inclusive(metric, value, warn_limit, fail_limit, unit) ==
    [metric     |-> metric,
     value      |-> value,
     warn_limit |-> warn_limit,
     fail_limit |-> fail_limit,
     status     |-> IF value >= fail_limit THEN "fail"
                    ELSE IF value >= warn_limit THEN "warn" ELSE "pass",
     unit       |-> unit]

\* The record add_check appends to checks.
add_check(metric, value, warn_limit, fail_limit, unit) ==
    [metric     |-> metric,
     value      |-> value,
     warn_limit |-> warn_limit,
     fail_limit |-> fail_limit,
     status     |-> IF value > fail_limit THEN "fail"
                    ELSE IF value > warn_limit THEN "warn" ELSE "pass",
     unit       |-> unit]

\* Mutant of Verdict: a warn check hides a fail check.
Verdict_WarnFirst(checks) ==
    IF \E i \in DOMAIN checks : checks[i].status = "warn" THEN "warn"
    ELSE IF \E i \in DOMAIN checks : checks[i].status = "fail" THEN "fail"
    ELSE "pass"

\* The verdict evaluate_run derives from its checks.
Verdict(checks) ==
    IF \E i \in DOMAIN checks : checks[i].status = "fail" THEN "fail"
    ELSE IF \E i \in DOMAIN checks : checks[i].status = "warn" THEN "warn"
    ELSE "pass"

evaluate_run(summary, run_type) ==
    LET thresholds == run_type_thresholds(run_type)
        checks == << add_check("uncached_tokens",
                               Get(summary, "uncached_tokens", Get(summary, "total_tokens", 0)),
                               thresholds.warn_uncached_tokens,
                               thresholds.fail_uncached_tokens, "tokens"),
                     add_check("estimated_cost_usd",
                               Get(summary, "estimated_cost_usd", 0),
                               thresholds.warn_cost_usd,
                               thresholds.fail_cost_usd, "usd"),
                     add_check("retry_loops",
                               Get(summary, "retry_loops", 0),
                               thresholds.warn_retry_loops,
                               thresholds.fail_retry_loops, "count") >>
    IN  [run_type   |-> run_type,
         verdict    |-> Verdict(checks),
         checks     |-> checks,
         thresholds |-> thresholds]

(***************************************************************************)
(* The trend ledger: CSV cells, read_trend_rows, to_float, baseline_delta  *)
(*                                                                         *)
(* A CSV cell is a string.  A cell holding the decimal numeral of a number *)
(* is kept with the number it parses to (in the unit of its column);       *)
(* any other cell is text, which float() rejects.                          *)
(***************************************************************************)

Text(s) == [txt |-> s, num |-> 0, isnum |-> FALSE]

\* str(n) for a number n: the numeral that float() reads back as n.
Str(n) == [txt |-> "", num |-> n, isnum |-> TRUE]

\* row.get(k): None when the row has no such column.
RowGet(row, k) == IF k \in DOMAIN row THEN Some(row[k]) ELSE None

\* to_float(v, default): None and a cell float() rejects give the default.
to_float(v, default) ==
    IF IsNone(v) THEN default
    ELSE IF The(v).isnum THEN The(v).num ELSE default

\* read_trend_rows: no file, no rows; else one dict per data row, keyed by the header.
read_trend_rows(file) == IF ~file.exists THEN << >> ELSE file.rows

\* Mutant of Matches: the source of the row is not compared.
Matches_IgnoreSource(r, project_slug, source, run_type) ==
    /\ Get(r, "project", Text("")) = Text(project_slug)
    /\ Get(r, "run_type", Text("real")) = Text(run_type)

\* Mutant of Matches: the run type of the row is not compared.
Matches_IgnoreRunType(r, project_slug, source, run_type) ==
    /\ Get(r, "project", Text("")) = Text(project_slug)
    /\ Get(r, "source", Text("")) = Text(source)

\* The filter of `similar`: a row without a run_type column counts as "real".
Matches(r, project_slug, source, run_type) ==
    /\ Get(r, "project", Text("")) = Text(project_slug)
    /\ Get(r, "source", Text("")) = Text(source)
    /\ Get(r, "run_type", Text("real")) = Text(run_type)

RECURSIVE SelectRows(_, _, _, _)
\* [r for r in trend_rows if Matches(r, ..)], in ledger order.
SelectRows(trend_rows, project_slug, source, run_type) ==
    IF trend_rows = << >> THEN << >>
    ELSE LET r == Head(trend_rows)
             rest == SelectRows(Tail(trend_rows), project_slug, source, run_type)
         IN  IF Matches(r, project_slug, source, run_type)
             THEN <<r>> \o rest
             ELSE rest

\* Mutant of LastFive: the first five rows instead of the last five.
LastFive_Oldest(similar) ==
    IF Len(similar) <= 5 THEN similar ELSE SubSeq(similar, 1, 5)

\* similar[-5:]
LastFive(similar) ==
    IF Len(similar) <= 5 THEN similar ELSE SubSeq(similar, Len(similar) - 4, Len(similar))

RECURSIVE Insert(_, _)
Insert(x, sorted) ==
    IF sorted = << >> THEN <<x>>
    ELSE IF x <= Head(sorted) THEN <<x>> \o sorted
    ELSE <<Head(sorted)>> \o Insert(x, Tail(sorted))

RECURSIVE Sorted(_)
Sorted(xs) == IF xs = << >> THEN << >> ELSE Insert(Head(xs), Sorted(Tail(xs)))

\* Mutant of Median2: the upper middle value, also for an even count.
Median2_Upper(xs) ==
    LET s == Sorted(xs)
        n == Len(s)
    IN  2 * s[(n \div 2) + 1]

\* Twice statistics.median(xs) (xs not empty): a whole number also for an even count.
Median2(xs) ==
    LET s == Sorted(xs)
        n == Len(s)
    IN  IF n % 2 = 1 THEN 2 * s[(n + 1) \div 2]
        ELSE s[n \div 2] + s[(n \div 2) + 1]

\* round(pct_delta(current, base), 2) in hundredths of a percent, base = base2/2.
pct_delta(current, base2) ==
    IF base2 = 0 THEN 0
    ELSE Round((2 * current - base2) * 10000, base2, "delta_percent")

\* One entry of the result; scale is the number of result units per input unit.
DeltaEntry(current, base2, scale) ==
    [current         |-> current * scale,
     baseline_median |-> Round(base2 * scale, 2, "baseline_median"),
     delta           |-> Round((2 * current - base2) * scale, 2, "delta"),
     delta_percent   |-> pct_delta(current, base2)]

baseline_delta(trend_rows, project_slug, source, run_type, summary, scores) ==
    LET similar == SelectRows(trend_rows, project_slug, source, run_type)
        last == LastFive(similar)
        baseline_uncached == [i \in DOMAIN last |->
            to_float(RowGet(last[i], "uncached_tokens"),
                     to_float(RowGet(last[i], "total_tokens"), 0))]
        baseline_cost == [i \in DOMAIN last |-> to_float(RowGet(last[i], "estimated_cost_usd"), 0)]
        baseline_eff == [i \in DOMAIN last |-> to_float(RowGet(last[i], "efficiency"), 0)]
        uncached == Get(summary, "uncached_tokens", Get(summary, "total_tokens", 0))
        cost == Get(summary, "estimated_cost_usd", 0)
        eff == Get(scores, "efficiency", 0)
    IN  IF similar = << >> THEN None
        ELSE Some([sample_size        |-> Len(last),
                   \* tokens in, hundredths of a token out (round(.., 2))
                   uncached_tokens    |-> DeltaEntry(uncached, Median2(baseline_uncached), 100),
                   \* micro-dollars in and out (round(.., 6))
                   estimated_cost_usd |-> DeltaEntry(cost, Median2(baseline_cost), 1),
                   \* hundredths of a point in and out (round(.., 2))
                   efficiency         |-> DeltaEntry(eff, Median2(baseline_eff), 1)])

(***************************************************************************)
(* append_trend_row                                                        *)
(*                                                                         *)
(* The trend file is [exists, fields, rows]: fields is the header line     *)
(* (<< >> for a file without one), rows are the dicts csv.DictReader       *)
(* yields, each keyed by the file's own header.                            *)
(***************************************************************************)

header == << "date", "project", "source", "run_type", "session_reference_id",
             "session_id", "uncached_tokens", "total_tokens", "input_tokens",
             "output_tokens", "tool_calls", "retry_loops", "efficiency",
             "reliability", "composite", "estimated_cost_usd", "verdict",
             "report_path" >>

Range(f) == {f[i] : i \in DOMAIN f}

IndexOf(seq, x) == CHOOSE i \in DOMAIN seq : seq[i] = x

\* Mutant of MigrateRow: uncached_tokens is backfilled with "0", not with total_tokens.
MigrateRow_ZeroUncached(row) ==
    [k \in Range(header) |->
        CASE k = "run_type" -> Get(row, k, Text("real"))
          [] k = "uncached_tokens" -> Get(row, k, Str(0))
          [] k \in {"total_tokens", "input_tokens", "output_tokens", "tool_calls",
                    "retry_loops", "efficiency", "reliability", "composite",
                    "estimated_cost_usd"} -> Get(row, k, Str(0))
          [] OTHER -> Get(row, k, Text(""))]

\* The dict the migration loop builds for one existing row.
MigrateRow(row) ==
    [k \in Range(header) |->
        CASE k = "run_type" -> Get(row, k, Text("real"))
          [] k = "uncached_tokens" -> Get(row, k, Get(row, "total_tokens", Str(0)))
          [] k \in {"total_tokens", "input_tokens", "output_tokens", "tool_calls",
                    "retry_loops", "efficiency", "reliability", "composite",
                    "estimated_cost_usd"} -> Get(row, k, Str(0))
          [] OTHER -> Get(row, k, Text(""))]

\* open("w"); writeheader(): the file is truncated to the current header.
WriteHeader(file) == [exists |-> TRUE, fields |-> header, rows |-> << >>]

\* open("w"); writeheader(); writerows(migrated), migrated built from existing_rows.
RewriteMigrated(file, existing_rows) ==
    [exists |-> TRUE,
     fields |-> header,
     rows   |-> [i \in DOMAIN existing_rows |-> MigrateRow(existing_rows[i])]]

\* The row dict append_trend_row builds from the report.
NewRow(report, report_path, project_slug) ==
    LET summary == Get(report, "summary", << >>)
        scores == Get(report, "scores", << >>)
        evaluation == Get(report, "evaluation", << >>)
    IN  [k \in Range(header) |->
            CASE k = "date" -> Text("today")
              [] k = "project" -> Text(project_slug)
              [] k = "source" -> Text(Get(report, "source", ""))
              [] k = "run_type" -> Text(Get(report, "run_type", "real"))
              [] k = "session_reference_id" -> Get(report, "session_reference_id", Text(""))
              [] k = "session_id" -> Get(report, "session_id", Text(""))
              [] k \in {"uncached_tokens", "total_tokens", "input_tokens", "output_tokens",
                        "tool_calls", "retry_loops", "estimated_cost_usd"} ->
                     Str(Get(summary, k, 0))
              [] k \in {"efficiency", "reliability", "composite"} -> Str(Get(scores, k, 0))
              [] k = "verdict" -> Text(Get(evaluation, "verdict", ""))
              [] OTHER -> Text(report_path)]

\* open("a"); DictWriter(fieldnames=header).writerow(row): one line of 18 cells in
\* header order goes to the end of the file.  A reader keys the line by the
\* header the file has: cell i under the file's column i.
AppendLine(file, row) ==
    LET line == [i \in DOMAIN header |-> row[header[i]]]
        n == Min(Len(file.fields), Len(line))
        keyed == [k \in {file.fields[i] : i \in 1..n} |-> line[IndexOf(file.fields, k)]]
    IN  [exists |-> TRUE, fields |-> file.fields, rows |-> Append(file.rows, keyed)]

\* Mutant of EnsureHeader: a file that has rows is left as it is.
EnsureHeader_NoMigration(file) ==
    IF ~file.exists \/ read_trend_rows(file) = << >> THEN WriteHeader(file) ELSE file

\* The file after the header/migration part of append_trend_row (lines 946-981).
EnsureHeader(file) ==
    LET existing_rows == read_trend_rows(file)
    IN  IF ~file.exists \/ existing_rows = << >> THEN WriteHeader(file)
        ELSE IF file.fields # header THEN RewriteMigrated(file, existing_rows)
        ELSE file

\* Mutant of append_trend_row: the header is rewritten on every call.
append_trend_row_Truncating(file, report, report_path, project_slug) ==
    AppendLine(WriteHeader(file), NewRow(report, report_path, project_slug))

\* One whole, uninterrupted call of append_trend_row.
append_trend_row(file, report, report_path, project_slug) ==
    AppendLine(EnsureHeader(file), NewRow(report, report_path, project_slug))

(***************************************************************************)
(* main: the part after argument parsing.                                  *)
(*                                                                         *)
(* a = [project_slug, run_type, session_reference_id, trend_file, out,     *)
(*      max_tokens, max_cost_usd, timebox_minutes, elapsed_minutes,        *)
(*      collect]; collect is what the telemetry collection (agtrace,       *)
(* ccusage: outside this model) came back with: None for a ToolError, else *)
(* [source, summary, source_reliability, session_id].                      *)
(***************************************************************************)

\* The report dict of a run whose collection succeeded (lines 1058-1091).
BuildReport(a, file) ==
    LET c == The(a.collect)
        budget == build_budget(c.summary, a)
        scores == score_summary(c.summary, budget, c.source_reliability)
        evaluation == evaluate_run(c.summary, a.run_type)
        baseline == IF a.trend_file
                    THEN baseline_delta(read_trend_rows(file), a.project_slug, c.source,
                                        a.run_type, c.summary, scores)
                    ELSE None
    IN  [session_reference_id |-> a.session_reference_id,
         project              |-> a.project_slug,
         run_type             |-> a.run_type,
         source               |-> c.source,
         summary              |-> c.summary,
         scores               |-> scores,
         evaluation           |-> evaluation,
         session_id           |-> c.session_id,
         budget               |-> budget,
         baseline_delta       |-> baseline]

ReportPath(a) == IF a.out THEN "out/report.json" ELSE ""

\* Mutant of main: the baseline is read after the run's own row was appended.
main_BaselineAfterAppend(a, file) ==
    IF IsNone(a.collect) THEN [rc |-> 1, file |-> file, report |-> None]
    ELSE LET first == BuildReport(a, file)
             after == IF a.trend_file
                      THEN append_trend_row(file, first, ReportPath(a), a.project_slug)
                      ELSE file
         IN  [rc |-> 0, file |-> after, report |-> Some(BuildReport(a, after))]

\* One whole run of main on the trend file `file`: exit code, file afterwards, report.
main(a, file) ==
    IF IsNone(a.collect) THEN [rc |-> 1, file |-> file, report |-> None]
    ELSE LET report == BuildReport(a, file)
         IN  [rc     |-> 0,
              file   |-> IF a.trend_file
                         THEN append_trend_row(file, report, ReportPath(a), a.project_slug)
                         ELSE file,
              report |-> Some(report)]

(***************************************************************************)
(* Inputs of the ledger specifications                                     *)
(***************************************************************************)

\* How many rows the runs of one behaviour append to the trend file.
MaxRuns == 6

\* An older header: the columns of the current one without the newer
\* run_type, session_reference_id and uncached_tokens.
LegacyHeader == SelectSeq(header,
                          LAMBDA k : k \notin {"run_type", "session_reference_id", "uncached_tokens"})

\* A different header: the older one plus a column the current set does not have.
ForeignHeader == Append(LegacyHeader, "model_used")

SessionNames == << "s-1", "s-2", "s-3" >>

\* The row a past session n left in a file whose header is `fields`.
StoredRow(n, fields) ==
    LET full == [k \in Range(header) \cup {"model_used"} |->
            CASE k = "date" -> Text("2026-01-01")
              [] k = "project" -> Text("alpha")
              [] k = "source" -> Text("codex")
              [] k = "run_type" -> Text("real")
              [] k = "session_reference_id" -> Text(SessionNames[n])
              [] k = "session_id" -> Text(SessionNames[n])
              [] k = "uncached_tokens" -> Str(1000 * n)
              [] k = "total_tokens" -> Str(1000 * n + 500)
              [] k = "input_tokens" -> Str(600 * n)
              [] k = "output_tokens" -> Str(400 * n)
              [] k = "tool_calls" -> Str(n)
              [] k = "retry_loops" -> Str(0)
              [] k = "efficiency" -> Str(9000 + n)
              [] k = "reliability" -> Str(8400)
              [] k = "composite" -> Str(9300)
              [] k = "estimated_cost_usd" -> Str(0)
              [] k = "verdict" -> Text("pass")
              [] k = "model_used" -> Text("model-x")
              [] OTHER -> Text("")]
    IN  [k \in Range(fields) |-> full[k]]

FileWith(fields, n) ==
    [exists |-> TRUE, fields |-> fields, rows |-> [i \in 1..n |-> StoredRow(i, fields)]]

MissingFile == [exists |-> FALSE, fields |-> << >>, rows |-> << >>]
EmptyFile == [exists |-> TRUE, fields |-> << >>, rows |-> << >>]

\* The states a trend file is found in: missing, empty, header only (current
\* or older), current header with rows, older header with rows, different
\* header with rows.
InitialFiles ==
    { MissingFile, EmptyFile, FileWith(header, 0), FileWith(LegacyHeader, 0),
      FileWith(header, 2), FileWith(LegacyHeader, 2), FileWith(ForeignHeader, 2) }

\* What summarize_from_agtrace returns for two codex sessions (no cost), and
\* what merge_claude_summary returns for a claude session.
SmallCodexSummary ==
    [input_tokens |-> 300, output_tokens |-> 100, uncached_tokens |-> 400,
     cache_creation_tokens |-> 0, cache_read_tokens |-> 1000, total_tokens |-> 1400,
     messages |-> 4, avg_tokens_per_message |-> 35000, tool_calls |-> 3,
     retry_loops |-> 0, repeated_context_ratio |-> 0]

ClaudeSummary ==
    [input_tokens |-> 900, output_tokens |-> 300, uncached_tokens |-> 1700,
     cache_creation_tokens |-> 500, cache_read_tokens |-> 4000, total_tokens |-> 5700,
     estimated_cost_usd |-> 31250, messages |-> 6, avg_tokens_per_message |-> 95000,
     tool_calls |-> 22, retry_loops |-> 1, repeated_context_ratio |-> 167]

\* The outcomes of the collection: ToolError, or a source with its summary
\* and the reliability main gives that source (0.8 codex, 0.95 claude).
Collections ==
    { None,
      Some([source |-> "codex", summary |-> SmallCodexSummary,
            source_reliability |-> 80, session_id |-> Text("sid-codex")]),
      Some([source |-> "claude", summary |-> ClaudeSummary,
            source_reliability |-> 95, session_id |-> Text("sid-claude")]) }

\* The command lines of the ledger runs: with a trend file (and --out) or
\* without; a run passes --session-reference-id n, n one more than the number
\* of rows appended so far, so every appended row can be told from the others.
LedgerArgs(n) ==
    { [project_slug |-> "alpha", run_type |-> "real",
       session_reference_id |-> Str(n),
       trend_file |-> tf, out |-> tf,
       max_tokens |-> None, max_cost_usd |-> None,
       timebox_minutes |-> None, elapsed_minutes |-> None,
       collect |-> c] : tf \in BOOLEAN, c \in Collections }

Idle == "idle"

(***************************************************************************)
(* SpecSeq: runs of main one after the other on one trend file.            *)
(* hist = [init: the file as found, runs: how many runs appended a row,    *)
(*         before: the file before the last run, args: the last run's      *)
(*         command line]; ret = the last run's [rc, report].               *)
(***************************************************************************)

InitSeq ==
    /\ trend \in InitialFiles
    /\ hist = [init |-> trend, runs |-> 0, before |-> trend, args |-> None]
    /\ ret = None
    /\ pc = Idle
    /\ frame = Idle
    /\ call = Idle
    /\ ties \in {{}, RoundedFields}

Main ==
    /\ hist.runs < MaxRuns
    /\ \E a \in LedgerArgs(hist.runs + 1) :
        LET r == main(a, trend)
        IN  /\ trend' = r.file
            /\ ret' = Some([rc |-> r.rc, report |-> r.report])
            /\ hist' = [init |-> hist.init,
                        runs |-> IF r.rc = 0 /\ a.trend_file THEN hist.runs + 1 ELSE hist.runs,
                        before |-> trend, args |-> Some(a)]
    /\ UNCHANGED <<pc, frame, call, ties>>

NextSeq == Main

SpecSeq == InitSeq /\ [][NextSeq]_vars

(***************************************************************************)
(* Properties of the sequential ledger runs (SpecSeq)                      *)
(***************************************************************************)

\* The last run appended to the trend file: it had --trend-file and its collection succeeded.
Appended ==
    /\ ~IsNone(ret)
    /\ The(ret).rc = 0
    /\ The(hist.args).trend_file

\* The rows a reader found in the file before the last run.
RowsBefore == read_trend_rows(hist.before)

\* Every column/value pair of the stored row `old` is in the row `new`.
KeepsValues(old, new) ==
    \A k \in DOMAIN old : k \in DOMAIN new /\ new[k] = old[k]

\* The first Len(old) rows of `new` are the rows of `old`, in order, values kept.
KeepsRows(old, new) ==
    /\ Len(new) >= Len(old)
    /\ \A i \in DOMAIN old : KeepsValues(old[i], new[i])

\* C2: one sequential call of append_trend_row, whatever state it finds the
\* trend file in, leaves every stored row present, in the same order, with
\* its stored values unchanged, and adds exactly one new row, placed last.
C2_AppendKeepsStoredRows ==
    Appended =>
        /\ Len(trend.rows) = Len(RowsBefore) + 1
        /\ KeepsRows(RowsBefore, trend.rows)
        /\ trend.rows[Len(trend.rows)]["session_reference_id"]
               = The(hist.args).session_reference_id

\* The last call of append_trend_row found a header other than the current
\* one, with rows under it, and so migrated them.
Migrated ==
    /\ Appended
    /\ hist.before.exists
    /\ RowsBefore # << >>
    /\ hist.before.fields # header

\* C3: the migration loses no value stored in an existing row (each
\* column/value pair of the old row is in the migrated row), and migrating
\* the migrated file again changes nothing.
C3_MigrationKeepsEveryValue ==
    Migrated =>
        /\ KeepsRows(RowsBefore, trend.rows)
        /\ RewriteMigrated(trend, read_trend_rows(trend)) = trend
        /\ EnsureHeader(trend) = trend

\* The (project, source, run_type) of a row of the current header.
GroupOf(row) == << row["project"], row["source"], row["run_type"] >>

\* How many rows of `rows` (all of the current header) are in the group of its last row.
RunsOfLastGroup(rows) ==
    Cardinality({i \in DOMAIN rows : GroupOf(rows[i]) = GroupOf(rows[Len(rows)])})

\* The ledger was empty when the runs began: missing, empty or header only.
StartedEmpty == read_trend_rows(hist.init) = << >>

\* C7: the baseline of a run is computed from the ledger as it was before
\* the run's own row was appended: on a ledger that started empty, the k-th
\* run of a (project, source, run_type) group reports no baseline for k = 1
\* and sample_size = min(k - 1, 5) for k > 1.
C7_BaselineExcludesOwnRow ==
    (Appended /\ StartedEmpty) =>
        LET k == RunsOfLastGroup(trend.rows)
            baseline == The(The(ret).report).baseline_delta
        IN  /\ k = 1 => IsNone(baseline)
            /\ k > 1 => /\ ~IsNone(baseline)
                        /\ The(baseline).sample_size = Min(k - 1, 5)

\* A sixth run of one group on a ledger that started empty: five rows before
\* it, six after it, and a baseline over five.
C7_Witness ==
    /\ Appended
    /\ StartedEmpty
    /\ RunsOfLastGroup(trend.rows) = 6
    /\ ~IsNone(The(The(ret).report).baseline_delta)
    /\ The(The(The(ret).report).baseline_delta).sample_size = 5

\* With only columns of the current set stored, C2 and C3 hold of the code.
StoredColumnsAreCurrent == Range(hist.init.fields) \subseteq Range(header)

KnownColumnsKept ==
    StoredColumnsAreCurrent => (C2_AppendKeepsStoredRows /\ C3_MigrationKeepsEveryValue)

(***************************************************************************)
(* SpecConc: independent invocations of main on the same trend file.       *)
(* Nothing in the script locks the file, so the file operations of the     *)
(* invocations interleave; each read, each open("w") rewrite and each      *)
(* one-line append is one step.                                            *)
(* frame[p] = [report, existing_rows, current_fields];                     *)
(* hist = [init: the file as found].                                       *)
(***************************************************************************)

\* The number of concurrent invocations.
NProcs == 2

Procs == 1..NProcs

\* Invocation p's command line: it passes --session-reference-id p.
ConcArgs(p) ==
    [project_slug |-> "alpha", run_type |-> "real",
     session_reference_id |-> Str(p),
     trend_file |-> TRUE, out |-> TRUE,
     max_tokens |-> None, max_cost_usd |-> None,
     timebox_minutes |-> None, elapsed_minutes |-> None,
     collect |-> Some([source |-> "codex", summary |-> SmallCodexSummary,
                       source_reliability |-> 80, session_id |-> Text("sid-codex")])]

\* The files the invocations may find: only columns of the current set.
ConcFiles == {f \in InitialFiles : Range(f.fields) \subseteq Range(header)}

InitConc ==
    /\ trend \in ConcFiles
    /\ hist = [init |-> trend]
    /\ pc = [p \in Procs |-> "main"]
    /\ frame = [p \in Procs |-> [report |-> None, existing_rows |-> << >>,
                                 current_fields |-> << >>]]
    /\ ret = None
    /\ call = Idle
    /\ ties = {}

\* main, lines 1058-1091: the report, with the baseline read from the file.
ReadBaseline(p) ==
    /\ pc[p] = "main"
    /\ frame' = [frame EXCEPT ![p].report = Some(BuildReport(ConcArgs(p), trend))]
    /\ pc' = [pc EXCEPT ![p] = "read"]
    /\ UNCHANGED <<trend, hist, ret, call, ties>>

\* line 946: existing_rows = read_trend_rows(trend_path)
ReadExisting(p) ==
    /\ pc[p] = "read"
    /\ frame' = [frame EXCEPT ![p].existing_rows = read_trend_rows(trend)]
    /\ pc' = [pc EXCEPT ![p] = "decide"]
    /\ UNCHANGED <<trend, hist, ret, call, ties>>

\* line 947: if not trend_path.exists() or not existing_rows
Decide(p) ==
    /\ pc[p] = "decide"
    /\ pc' = [pc EXCEPT ![p] = IF ~trend.exists \/ frame[p].existing_rows = << >>
                               THEN "write_header" ELSE "read_fields"]
    /\ UNCHANGED <<trend, frame, hist, ret, call, ties>>

\* lines 948-950: open("w"), writeheader()
WriteHeaderStep(p) ==
    /\ pc[p] = "write_header"
    /\ trend' = WriteHeader(trend)
    /\ pc' = [pc EXCEPT ![p] = "append"]
    /\ UNCHANGED <<frame, hist, ret, call, ties>>

\* lines 952-955: current_fields = reader.fieldnames or []
ReadFields(p) ==
    /\ pc[p] = "read_fields"
    /\ frame' = [frame EXCEPT ![p].current_fields = trend.fields]
    /\ pc' = [pc EXCEPT ![p] = IF trend.fields # header THEN "migrate" ELSE "append"]
    /\ UNCHANGED <<trend, hist, ret, call, ties>>

\* lines 956-981: the file is rewritten from the rows read at line 946
MigrateStep(p) ==
    /\ pc[p] = "migrate"
    /\ trend' = RewriteMigrated(trend, frame[p].existing_rows)
    /\ pc' = [pc EXCEPT ![p] = "append"]
    /\ UNCHANGED <<frame, hist, ret, call, ties>>

\* lines 983-1012: open("a"), writerow(row)
AppendStep(p) ==
    /\ pc[p] = "append"
    /\ trend' = AppendLine(trend, NewRow(The(frame[p].report), ReportPath(ConcArgs(p)),
                                         ConcArgs(p).project_slug))
    /\ pc' = [pc EXCEPT ![p] = "done"]
    /\ UNCHANGED <<frame, hist, ret, call, ties>>

NextConc ==
    \E p \in Procs :
        \/ ReadBaseline(p)
        \/ ReadExisting(p)
        \/ Decide(p)
        \/ WriteHeaderStep(p)
        \/ ReadFields(p)
        \/ MigrateStep(p)
        \/ AppendStep(p)

SpecConc == InitConc /\ [][NextConc]_vars

AllDone == \A p \in Procs : pc[p] = "done"

\* How many rows of the file carry invocation p's reference id.
RowsOf(p) ==
    Cardinality({i \in DOMAIN trend.rows :
                    Get(trend.rows[i], "session_reference_id", Text("")) = Str(p)})

\* C1: when invocations of append_trend_row run concurrently on one trend
\* file, whatever the interleaving, no stored row is lost or rewritten and
\* each invocation has added exactly one row.
C1_ConcurrentAppendsKeepRows ==
    AllDone =>
        /\ KeepsRows(read_trend_rows(hist.init), trend.rows)
        /\ Len(trend.rows) = Len(read_trend_rows(hist.init)) + NProcs
        /\ \A p \in Procs : RowsOf(p) = 1

(***************************************************************************)
(* SpecEval: evaluate_run on one summary and run type.                     *)
(* call = [summary, run_type]; ret = None, then the evaluation.            *)
(***************************************************************************)

\* Values at, just above and away from every limit of the three tables.
EvalUncached == {0, 50, 51, 500, 501, 600, 50000, 50001, 120000, 120001, 300000, 300001}
EvalCost == {0, 20000, 20001, 50000, 50001, 10000001, 20000000, 25000001, 50000000, 50000001}
EvalRetries == {0, 1, 2, 3, 4, 5, 6, 7, 8, 9}
RunTypes == {"smoke", "workflow", "real"}

\* The summaries: a codex one has no estimated_cost_usd; one from an older
\* collector has no uncached_tokens either, only total_tokens.
EvalSummaries ==
    { [total_tokens |-> u, retry_loops |-> r] : u \in {0, 600, 300001}, r \in {0, 9} }
    \cup { [uncached_tokens |-> u, total_tokens |-> u + 1000, retry_loops |-> r] :
               u \in EvalUncached, r \in EvalRetries }
    \cup { [uncached_tokens |-> u, total_tokens |-> u + 1000, retry_loops |-> r,
            estimated_cost_usd |-> c] :
               u \in EvalUncached, r \in {0, 1, 2, 4, 8, 9}, c \in EvalCost }

InitEval ==
    /\ call \in [summary : EvalSummaries, run_type : RunTypes]
    /\ ret = None
    /\ pc = "evaluate_run"
    /\ trend = Idle
    /\ frame = Idle
    /\ hist = Idle
    /\ ties = {}

EvaluateRun ==
    /\ pc = "evaluate_run"
    /\ ret' = Some(evaluate_run(call.summary, call.run_type))
    /\ pc' = "done"
    /\ UNCHANGED <<trend, frame, hist, call, ties>>

NextEval == EvaluateRun

SpecEval == InitEval /\ [][NextEval]_vars

Evaluated == pc = "done" /\ ~IsNone(ret)

\* C4: the verdict is the worst check status: fail iff some check's value is
\* strictly above its fail_limit, warn iff no check is fail and some check is
\* warn, pass iff every check's value is at most its warn_limit.
C4_VerdictIsWorstStatus ==
    Evaluated =>
        LET ev == The(ret)
            checks == ev.checks
        IN  /\ ev.verdict \in {"pass", "warn", "fail"}
            /\ ev.verdict = "fail" <=> \E i \in DOMAIN checks : checks[i].value > checks[i].fail_limit
            /\ ev.verdict = "warn" <=> /\ \A i \in DOMAIN checks : checks[i].status # "fail"
                                       /\ \E i \in DOMAIN checks : checks[i].status = "warn"
            /\ ev.verdict = "pass" <=> \A i \in DOMAIN checks : checks[i].value <= checks[i].warn_limit

\* A fail verdict that rests on one check while another is only warn and the third passes.
C4_Witness ==
    /\ Evaluated
    /\ The(ret).verdict = "fail"
    /\ The(ret).checks[1].status = "warn"
    /\ The(ret).checks[2].status = "pass"
    /\ The(ret).checks[3].status = "fail"

\* The status the claim gives a value against its two limits.
StatusOf(value, warn_limit, fail_limit) ==
    IF value > fail_limit THEN "fail" ELSE IF value > warn_limit THEN "warn" ELSE "pass"

\* C5: evaluate_run produces exactly the three checks uncached_tokens,
\* estimated_cost_usd, retry_loops, each fail above its fail_limit, else warn
\* above its warn_limit, else pass, a value equal to a limit not tripping it;
\* uncached_tokens = 600 on a smoke run gives that check fail and verdict fail.
C5_ThreeChecksAgainstLimits ==
    Evaluated =>
        LET ev == The(ret)
            checks == ev.checks
            t == run_type_thresholds(call.run_type)
            uncached == Get(call.summary, "uncached_tokens", call.summary.total_tokens)
            cost == Get(call.summary, "estimated_cost_usd", 0)
            retries == call.summary.retry_loops
        IN  /\ Len(checks) = 3
            /\ <<checks[1].metric, checks[2].metric, checks[3].metric>>
                   = <<"uncached_tokens", "estimated_cost_usd", "retry_loops">>
            /\ checks[1].status = StatusOf(uncached, t.warn_uncached_tokens, t.fail_uncached_tokens)
            /\ checks[2].status = StatusOf(cost, t.warn_cost_usd, t.fail_cost_usd)
            /\ checks[3].status = StatusOf(retries, t.warn_retry_loops, t.fail_retry_loops)
            /\ uncached = t.fail_uncached_tokens => checks[1].status = "warn"
            /\ retries = t.warn_retry_loops => checks[3].status = "pass"
            /\ (call.run_type = "smoke" /\ uncached = 600) =>
                   (checks[1].status = "fail" /\ ev.verdict = "fail")

\* The example: a smoke run with 600 uncached tokens and nothing else above a limit.
C5_Witness ==
    /\ Evaluated
    /\ call.run_type = "smoke"
    /\ Get(call.summary, "uncached_tokens", 0) = 600
    /\ The(ret).checks[1].status = "fail"
    /\ The(ret).checks[2].status = "pass"
    /\ The(ret).checks[3].status = "pass"
    /\ The(ret).verdict = "fail"

(***************************************************************************)
(* SpecScore: build_budget, then score_summary, as main calls them.        *)
(* call = [summary, args, source_reliability];                             *)
(* ret = [budget, scores], scores None until score_summary has run.        *)
(***************************************************************************)

\* Token counts from nothing to far beyond every cap of the formula.
ScoreUncached == {0, 1, 400, 25000, 200000}
ScoreCacheRead == {0, 1000}
ScoreMessages == {0, 1, 50}
ScoreRetries == {0, 3, 13}
ScoreToolCalls == {10, 16, 60}
ScoreRepeated == {0, 167, 1000}
ScoreReliability == {0, 80, 100}

ScoreSummaries ==
    { [input_tokens |-> u, output_tokens |-> 0, uncached_tokens |-> u,
       cache_creation_tokens |-> 0, cache_read_tokens |-> c, total_tokens |-> u + c,
       estimated_cost_usd |-> 31250, messages |-> m,
       avg_tokens_per_message |-> IF m > 0 THEN ((u + c) * 100) \div m ELSE 0,
       tool_calls |-> t, retry_loops |-> r, repeated_context_ratio |-> x] :
          u \in ScoreUncached, c \in ScoreCacheRead, m \in ScoreMessages,
          t \in ScoreToolCalls, r \in ScoreRetries, x \in ScoreRepeated }

\* No budget; a token budget; all three budgets, each of them exceeded by most summaries.
ScoreBudgetArgs ==
    { [max_tokens |-> None, max_cost_usd |-> None,
       timebox_minutes |-> None, elapsed_minutes |-> None],
      [max_tokens |-> Some(1000), max_cost_usd |-> None,
       timebox_minutes |-> None, elapsed_minutes |-> None],
      [max_tokens |-> Some(0), max_cost_usd |-> Some(10000),
       timebox_minutes |-> Some(3000), elapsed_minutes |-> Some(4550)] }

InitScore ==
    /\ call \in [summary : ScoreSummaries, args : ScoreBudgetArgs,
                 source_reliability : ScoreReliability]
    /\ ret = None
    /\ pc = "build_budget"
    /\ trend = Idle
    /\ frame = Idle
    /\ hist = Idle
    /\ ties \in SUBSET {"efficiency", "quality_estimate", "composite"}

BuildBudget ==
    /\ pc = "build_budget"
    /\ ret' = Some([budget |-> build_budget(call.summary, call.args), scores |-> None])
    /\ pc' = "score_summary"
    /\ UNCHANGED <<trend, frame, hist, call, ties>>

ScoreSummary ==
    /\ pc = "score_summary"
    /\ ret' = Some([budget |-> The(ret).budget,
                    scores |-> Some(score_summary(call.summary, The(ret).budget,
                                                  call.source_reliability))])
    /\ pc' = "done"
    /\ UNCHANGED <<trend, frame, hist, call, ties>>

NextScore == BuildBudget \/ ScoreSummary

SpecScore == InitScore /\ [][NextScore]_vars

Scored == pc = "done" /\ ~IsNone(ret) /\ ~IsNone(The(ret).scores)

TheScores == The(The(ret).scores)

\* C9: for non-negative counters, however large, a repeated_context_ratio and
\* a source_reliability in [0,1] and any budget or none, the four scores are
\* all within [0,100] (0..10000 hundredths).
C9_ScoresWithinRange ==
    Scored =>
        \A k \in {"efficiency", "reliability", "quality_estimate", "composite"} :
            TheScores[k] >= 0 /\ TheScores[k] <= 10000

\* Huge token counts, many retries and every budget exceeded: the penalties
\* add up to more than 100 points, and efficiency and quality are held at 0.
C9_Witness ==
    /\ Scored
    /\ call.summary.uncached_tokens = 200000
    /\ call.summary.retry_loops = 13
    /\ call.summary.tool_calls = 60
    /\ ~IsNone(The(ret).budget)
    /\ TheScores.efficiency = 0
    /\ TheScores.quality_estimate = 0
    /\ TheScores.composite > 0

\* The efficiency formula as the claim writes it, in 1/(10000 * max(1, messages)) points:
\* clamp(100 - min(40, 40*(uncached + 0.1*cache_read)/20000)
\*           - min(20, max(0, 20*(uncached/max(1,messages) - 250)/500))
\*           - min(20, 6*retry_loops) - min(10, 0.5*max(0, tool_calls-15))
\*           - 10*repeated_context_ratio - budget overage penalties).
C10_Formula ==
    LET sm == call.summary
        M == IF sm.messages >= 1 THEN sm.messages ELSE 1
        D == 10000 * M
        \* 40*(uncached + 0.1*cache_read)/20000 = (10*uncached + cache_read)/5000
        tokens == IF 10 * sm.uncached_tokens + sm.cache_read_tokens >= 200000 THEN 40 * D
                  ELSE (10 * sm.uncached_tokens + sm.cache_read_tokens) * 2 * M
        \* 20*(uncached/M - 250)/500 = (uncached - 250*M)/(25*M)
        permsg == IF sm.uncached_tokens - 250 * M >= 500 * M THEN 20 * D
                  ELSE IF sm.uncached_tokens - 250 * M <= 0 THEN 0
                  ELSE (sm.uncached_tokens - 250 * M) * 400
        retries == IF 6 * sm.retry_loops >= 20 THEN 20 * D ELSE 6 * sm.retry_loops * D
        tools == IF sm.tool_calls - 15 >= 20 THEN 10 * D
                 ELSE IF sm.tool_calls <= 15 THEN 0
                 ELSE (sm.tool_calls - 15) * (D \div 2)
        repeated == sm.repeated_context_ratio * (D \div 100)
        raw == 100 * D - tokens - permsg - retries - tools - repeated
                       - BudgetPenalty(sm, The(ret).budget)
    IN  IF raw < 0 THEN 0 ELSE IF raw > 100 * D THEN 100 * D ELSE raw

\* The claim's example: 25000 uncached tokens, 50 messages, 3 retries, 10 tool
\* calls, nothing repeated, no cache reads, no budget.
C10_Example ==
    /\ call.summary.uncached_tokens = 25000
    /\ call.summary.messages = 50
    /\ call.summary.retry_loops = 3
    /\ call.summary.tool_calls = 10
    /\ call.summary.repeated_context_ratio = 0
    /\ call.summary.cache_read_tokens = 0
    /\ IsNone(The(ret).budget)

\* C10 as stated: the efficiency score_summary returns equals the formula's
\* value for every input, and is exactly 32 in the example.
C10_EfficiencyEqualsFormula ==
    Scored =>
        /\ TheScores.efficiency * 100 * MessagesOrOne(call.summary) = C10_Formula
        /\ C10_Example => TheScores.efficiency = 3200

\* C10 amended: the efficiency score_summary returns is the formula's value
\* rounded to two decimals (it is a whole number of hundredths within half a
\* hundredth of the value), and is exactly 32 in the example.
C10_EfficiencyIsRoundedFormula ==
    Scored =>
        /\ 2 * Abs(TheScores.efficiency * 100 * MessagesOrOne(call.summary) - C10_Formula)
               <= 100 * MessagesOrOne(call.summary)
        /\ C10_Example => TheScores.efficiency = 3200

\* The example was scored, and at 32.
C10_Witness == Scored /\ C10_Example /\ TheScores.efficiency = 3200

(***************************************************************************)
(* SpecBaseline: baseline_delta applied to ledgers of up to MaxLedger rows *)
(***************************************************************************)

MaxLedger == 6

\* The kinds of stored row: of the current project's real runs, of its smoke
\* runs, of another project.
RowKinds == {"real", "smoke", "other"}

\* The stored row of kind k at position i of a file whose header is `fields`:
\* rows at odd positions hold low values, rows at even positions high ones.
BaselineRow(k, i, fields) ==
    LET low == i % 2 = 1
        full == [c \in Range(header) |->
            CASE c = "project" -> Text(IF k = "other" THEN "beta" ELSE "alpha")
              [] c = "source" -> Text("codex")
              [] c = "run_type" -> Text(IF k = "smoke" THEN "smoke" ELSE "real")
              [] c = "uncached_tokens" -> Str(IF low THEN 30 ELSE 70)
              [] c = "total_tokens" -> Str(IF low THEN 35 ELSE 90)
              [] c = "efficiency" -> Str(IF low THEN 9000 ELSE 5001)
              [] c = "estimated_cost_usd" -> Str(IF low THEN 0 ELSE 7)
              [] OTHER -> Text("")]
    IN  [c \in Range(fields) |-> full[c]]

\* The rows read_trend_rows yields: every row of a file has the file's columns.
BaselineLedgers ==
    UNION {{[i \in 1..n |-> BaselineRow(ks[i], i, fields)] : ks \in [1..n -> RowKinds]} :
           n \in 0..MaxLedger, fields \in {header, LegacyHeader}}

InitBaseline ==
    /\ call \in [trend_rows : BaselineLedgers,
                 project_slug : {"alpha"},
                 source : {"codex"},
                 run_type : {"real", "smoke"},
                 summary : {[uncached_tokens |-> 10, total_tokens |-> 12,
                             estimated_cost_usd |-> 5]},
                 scores : {[efficiency |-> 8000]}]
    /\ ret = None
    /\ pc = "baseline_delta"
    /\ trend = Idle
    /\ frame = Idle
    /\ hist = Idle
    /\ ties \in SUBSET {"baseline_median", "delta"}

BaselineDelta ==
    /\ pc = "baseline_delta"
    /\ ret' = Some([baseline |-> baseline_delta(call.trend_rows, call.project_slug,
                                                call.source, call.run_type,
                                                call.summary, call.scores)])
    /\ pc' = "done"
    /\ UNCHANGED <<trend, frame, hist, call, ties>>

NextBaseline == BaselineDelta

SpecBaseline == InitBaseline /\ [][NextBaseline]_vars

(***************************************************************************)
(* Properties of baseline_delta (SpecBaseline)                             *)
(***************************************************************************)

Compared == pc = "done" /\ ~IsNone(ret)

TheBaseline == The(ret).baseline

\* The run type a stored row stands for: a row of a file without the column
\* is a "real" run.
RunTypeOfRow(r) == IF "run_type" \in DOMAIN r THEN r.run_type ELSE Text("real")

\* The positions of the ledger rows of the current (project, source, run_type).
MatchingRows ==
    {i \in DOMAIN call.trend_rows :
        /\ call.trend_rows[i].project = Text(call.project_slug)
        /\ call.trend_rows[i].source = Text(call.source)
        /\ RunTypeOfRow(call.trend_rows[i]) = Text(call.run_type)}

\* C6: baseline_delta returns None exactly when no ledger row is of the
\* current (project, source, run_type); otherwise sample_size is the number N
\* of such rows when N <= 5 and 5 when N > 5.
C6_SampleSizeIsMatchingRowsUpToFive ==
    Compared =>
        LET N == Cardinality(MatchingRows)
        IN  /\ IsNone(TheBaseline) <=> N = 0
            /\ N > 0 => The(TheBaseline).sample_size = (IF N <= 5 THEN N ELSE 5)

\* More than five rows of the group, compared
\* against a ledger that has a run_type column.
C6_Witness ==
    /\ Compared
    /\ Cardinality(MatchingRows) > 5
    /\ "run_type" \in DOMAIN call.trend_rows[1]
    /\ ~IsNone(TheBaseline)
    /\ The(TheBaseline).sample_size = 5

\* The most recently appended matching rows, at most five of them.
RecentRows == {i \in MatchingRows : Cardinality({j \in MatchingRows : j > i}) < 5}

\* The stored value of a metric in row i; a row without an uncached_tokens
\* column stands with its total_tokens.
StoredValue(i, metric) ==
    LET r == call.trend_rows[i]
    IN  IF metric = "uncached_tokens" /\ "uncached_tokens" \notin DOMAIN r
        THEN r.total_tokens.num
        ELSE r[metric].num

\* The k-th smallest stored value of a metric over the rows S (1 <= k <= |S|).
KthSmallest(S, metric, k) ==
    CHOOSE v \in {StoredValue(i, metric) : i \in S} :
        /\ Cardinality({i \in S : StoredValue(i, metric) < v}) < k
        /\ Cardinality({i \in S : StoredValue(i, metric) <= v}) >= k

\* Twice the median of a metric over the rows S (S not empty).
TwiceMedian(S, metric) ==
    LET n == Cardinality(S)
    IN  KthSmallest(S, metric, (n + 1) \div 2) + KthSmallest(S, metric, (n + 2) \div 2)

\* The current value of a metric, in the unit of the stored ones.
CurrentValue(metric) ==
    IF metric = "efficiency" THEN call.scores.efficiency ELSE call.summary[metric]

\* Result units per stored unit: tokens are reported in hundredths.
UnitsOf(metric) == IF metric = "uncached_tokens" THEN 100 ELSE 1

Metrics == {"uncached_tokens", "estimated_cost_usd", "efficiency"}

\* C8 as stated: over the last at most five matching rows, baseline_median is
\* the median, delta is current - median and delta_percent is
\* (current - median)/median*100 (0 for a median of 0), each exactly.
C8_DeltasAreExact ==
    (Compared /\ MatchingRows /= {}) =>
        \A m \in Metrics :
            LET e == The(TheBaseline)[m]
                m2 == TwiceMedian(RecentRows, m)
                c == CurrentValue(m)
            IN  /\ 2 * e.baseline_median = m2 * UnitsOf(m)
                /\ 2 * e.delta = (2 * c - m2) * UnitsOf(m)
                /\ IF m2 = 0 THEN e.delta_percent = 0
                   ELSE e.delta_percent * m2 = (2 * c - m2) * 10000

\* C8, amended: the same three values, each rounded to the decimals of its
\* field (within half a unit of the exact value); rows older than the last
\* five matching ones have no part in them.
C8_DeltasAreRounded ==
    (Compared /\ MatchingRows /= {}) =>
        \A m \in Metrics :
            LET e == The(TheBaseline)[m]
                m2 == TwiceMedian(RecentRows, m)
                c == CurrentValue(m)
            IN  /\ e.current = c * UnitsOf(m)
                /\ Abs(2 * e.baseline_median - m2 * UnitsOf(m)) <= 1
                /\ Abs(2 * e.delta - (2 * c - m2) * UnitsOf(m)) <= 1
                /\ IF m2 = 0 THEN e.delta_percent = 0
                   ELSE 2 * Abs(e.delta_percent * m2 - (2 * c - m2) * 10000) <= m2

\* Six matching rows whose oldest would move the medians were it counted.
C8_Witness ==
    /\ Compared
    /\ Cardinality(MatchingRows) > 5
    /\ \A m \in Metrics : TwiceMedian(RecentRows, m) /= TwiceMedian(MatchingRows, m)
    /\ The(TheBaseline).efficiency.delta_percent /= 0

(***************************************************************************)
(* SpecBudget: build_budget and score_summary over the budget options      *)
(***************************************************************************)

\* A summary whose counters are all zero.
ZeroSummary ==
    [input_tokens |-> 0, output_tokens |-> 0, uncached_tokens |-> 0,
     cache_creation_tokens |-> 0, cache_read_tokens |-> 0, total_tokens |-> 0,
     estimated_cost_usd |-> 0, messages |-> 0, avg_tokens_per_message |-> 0,
     tool_calls |-> 0, retry_loops |-> 0, repeated_context_ratio |-> 0]

BudgetSummaries == {ZeroSummary, SmallCodexSummary, ClaudeSummary}

\* --max-tokens (int), --max-cost-usd (micro-dollars), --timebox-minutes and
\* --elapsed-minutes (hundredths of a minute): absent, or any number the
\* parser takes, zero and negative ones included.
BudgetMaxTokens == {None, Some(-5), Some(0), Some(1000), Some(6000)}
BudgetMaxCost == {None, Some(0), Some(10000), Some(50000)}
BudgetTimebox == {None, Some(0), Some(3000)}
BudgetElapsed == {None, Some(2000), Some(4550)}

BudgetArgs ==
    [max_tokens : BudgetMaxTokens, max_cost_usd : BudgetMaxCost,
     timebox_minutes : BudgetTimebox, elapsed_minutes : BudgetElapsed]

InitBudget ==
    /\ call \in [summary : BudgetSummaries, args : BudgetArgs, source_reliability : {80}]
    /\ ret = None
    /\ pc = "build_budget"
    /\ trend = Idle
    /\ frame = Idle
    /\ hist = Idle
    /\ ties \in {{}, RoundedFields}

SpecBudget == InitBudget /\ [][NextScore]_vars

\* build_budget has returned (score_summary may have, too).
Budgeted == pc \in {"score_summary", "done"} /\ ~IsNone(ret)

TheBudget == The(ret).budget

(***************************************************************************)
(* Properties of build_budget and the budget terms of the score (SpecBudget)*)
(***************************************************************************)

\* C11: a summary whose counters are all zero scores efficiency 100 and
\* quality_estimate 100, whatever budget options were or were not supplied.
C11_ZeroSummaryScoresHundred ==
    (Scored /\ call.summary = ZeroSummary) =>
        /\ TheScores.efficiency = 10000
        /\ TheScores.quality_estimate = 10000

\* Where C11 holds of the code: no budget exceeded by a session that used nothing.
ZeroSummaryWithinBudget ==
    (Scored /\ call.summary = ZeroSummary /\ ~HasTimeCheck(call.args)
            /\ (IsNone(call.args.max_tokens) \/ The(call.args.max_tokens) >= 0)) =>
        /\ TheScores.efficiency = 10000
        /\ TheScores.quality_estimate = 10000

\* A limit was declared: --max-tokens, --max-cost-usd or --timebox-minutes.
LimitDeclared ==
    \E k \in {"max_tokens", "max_cost_usd", "timebox_minutes"} : ~IsNone(call.args[k])

\* C13: build_budget returns no budget exactly when no limit was declared,
\* and every budget it returns has at least one constraint.
C13_NoBudgetIffNoLimit ==
    Budgeted =>
        /\ IsNone(TheBudget) <=> ~LimitDeclared
        /\ ~IsNone(TheBudget) => DOMAIN The(TheBudget).constraints /= {}

\* percent is current/limit*100 to the two decimals reported (hundredths of a
\* percent), or 0 for a limit <= 0.
IsPercentOf(percent, current, limit) ==
    IF limit <= 0 THEN percent = 0
    ELSE 2 * Abs(percent * limit - current * 10000) <= limit

\* The adherence entries of one supplied constraint.
ReportsCheck(numbers, pkey, okey, current, limit) ==
    /\ pkey \in DOMAIN numbers
    /\ okey \in DOMAIN numbers
    /\ IsPercentOf(numbers[pkey], current, limit)
    /\ numbers[okey] = (IF current > limit THEN current - limit ELSE 0)

\* C14: for each supplied constraint (tokens, cost, and time when the elapsed
\* minutes are supplied too) the adherence holds percent = current/limit*100,
\* 0 for a limit <= 0, and overage = max(0, current - limit); there is one
\* warning per constraint with an overage > 0 and none for the others.
C14_PercentOverageAndWarnings ==
    (Budgeted /\ ~IsNone(TheBudget)) =>
        LET a == call.args
            adh == The(TheBudget).adherence
            total == call.summary.total_tokens
            cost == IF "estimated_cost_usd" \in DOMAIN call.summary
                    THEN call.summary.estimated_cost_usd ELSE 0
            tok == ~IsNone(a.max_tokens)
            cst == ~IsNone(a.max_cost_usd)
            tim == ~IsNone(a.timebox_minutes) /\ ~IsNone(a.elapsed_minutes)
            exceeded == (IF tok /\ total > The(a.max_tokens) THEN 1 ELSE 0)
                        + (IF cst /\ cost > The(a.max_cost_usd) THEN 1 ELSE 0)
                        + (IF tim /\ The(a.elapsed_minutes) > The(a.timebox_minutes)
                           THEN 1 ELSE 0)
        IN  /\ tok => ReportsCheck(adh.numbers, "tokens_percent_of_budget",
                                   "tokens_over_budget", total, The(a.max_tokens))
            /\ cst => ReportsCheck(adh.numbers, "cost_percent_of_budget",
                                   "cost_over_budget_usd", cost, The(a.max_cost_usd))
            /\ tim => ReportsCheck(adh.numbers, "time_percent_of_budget",
                                   "minutes_over_budget", The(a.elapsed_minutes),
                                   The(a.timebox_minutes))
            /\ Len(adh.warnings) = exceeded

\* Where C14 holds of the code: the timebox, when there is a time check to make, is positive.
PositiveTimeboxChecks ==
    (~IsNone(call.args.timebox_minutes) /\ ~IsNone(call.args.elapsed_minutes)
        => The(call.args.timebox_minutes) > 0)
    => C14_PercentOverageAndWarnings

\* The arguments without the two time options.
WithoutTime(a) == [a EXCEPT !.timebox_minutes = None, !.elapsed_minutes = None]

\* C15: with --timebox-minutes or --elapsed-minutes missing the adherence has
\* no time entry and no time warning, and the efficiency is the one scored
\* without the time options; a time entry is there only when both were given.
C15_TimeCheckNeedsBoth ==
    /\ (Budgeted /\ ~IsNone(TheBudget)) =>
          LET adh == The(TheBudget).adherence
              both == ~IsNone(call.args.timebox_minutes) /\ ~IsNone(call.args.elapsed_minutes)
              timed == \/ "time_percent_of_budget" \in DOMAIN adh.numbers
                       \/ "minutes_over_budget" \in DOMAIN adh.numbers
                       \/ \E i \in DOMAIN adh.warnings : adh.warnings[i] = "Time budget exceeded"
          IN  timed => both
    /\ (Scored /\ (IsNone(call.args.timebox_minutes) \/ IsNone(call.args.elapsed_minutes))) =>
          TheScores.efficiency =
              score_summary(call.summary,
                            build_budget(call.summary, WithoutTime(call.args)),
                            call.source_reliability).efficiency

\* 45.5 elapsed minutes and no timebox, beside a token budget: scored, with
\* no time entry in the adherence.
C15_Witness ==
    /\ Scored
    /\ call.args.elapsed_minutes = Some(4550)
    /\ IsNone(call.args.timebox_minutes)
    /\ call.args.max_tokens = Some(1000)
    /\ ~IsNone(TheBudget)
    /\ "minutes_over_budget" \notin DOMAIN The(TheBudget).adherence.numbers
    /\ "tokens_over_budget" \in DOMAIN The(TheBudget).adherence.numbers

(***************************************************************************)
(* SpecMono: score_summary on a summary and on the same summary with one   *)
(* of retry_loops, tool_calls, repeated_context_ratio raised               *)
(***************************************************************************)

MonoUncached == {0, 400, 25000}
MonoMessages == {1, 50}
MonoRetries == {0, 1, 3, 4, 13}
MonoToolCalls == {10, 15, 16, 35, 60}
MonoRepeated == {0, 167, 1000}

\* The values a raised field is taken from.
MonoValues(field) ==
    IF field = "retry_loops" THEN MonoRetries
    ELSE IF field = "tool_calls" THEN MonoToolCalls
    ELSE MonoRepeated

MonoSummaries ==
    { [input_tokens |-> u, output_tokens |-> 0, uncached_tokens |-> u,
       cache_creation_tokens |-> 0, cache_read_tokens |-> 1000, total_tokens |-> u + 1000,
       estimated_cost_usd |-> 31250, messages |-> m,
       avg_tokens_per_message |-> ((u + 1000) * 100) \div m,
       tool_calls |-> t, retry_loops |-> r, repeated_context_ratio |-> x] :
          u \in MonoUncached, m \in MonoMessages,
          t \in MonoToolCalls, r \in MonoRetries, x \in MonoRepeated }

\* No budget, or the three budgets of ScoreBudgetArgs.
MonoBudgetArgs ==
    {a \in ScoreBudgetArgs : IsNone(a.max_tokens) \/ ~IsNone(a.timebox_minutes)}

InitMono ==
    /\ call \in {c \in [summary : MonoSummaries, args : MonoBudgetArgs,
                         source_reliability : {80},
                         field : {"retry_loops", "tool_calls", "repeated_context_ratio"},
                         raised : MonoRetries \cup MonoToolCalls \cup MonoRepeated] :
                    /\ c.raised \in MonoValues(c.field)
                    /\ c.raised > c.summary[c.field]}
    /\ ret = None
    /\ pc = "score_base"
    /\ trend = Idle
    /\ frame = Idle
    /\ hist = Idle
    /\ ties \in {{}, RoundedFields}

\* The summary of the call with its field raised.
RaisedSummary == [call.summary EXCEPT ![call.field] = call.raised]

ScoreBase ==
    /\ pc = "score_base"
    /\ ret' = Some([base |-> score_summary(call.summary,
                                           build_budget(call.summary, call.args),
                                           call.source_reliability)])
    /\ pc' = "score_raised"
    /\ UNCHANGED <<trend, frame, hist, call, ties>>

ScoreRaised ==
    /\ pc = "score_raised"
    /\ ret' = Some([base |-> The(ret).base,
                    raised |-> score_summary(RaisedSummary,
                                             build_budget(RaisedSummary, call.args),
                                             call.source_reliability)])
    /\ pc' = "compared"
    /\ UNCHANGED <<trend, frame, hist, call, ties>>

NextMono == ScoreBase \/ ScoreRaised

SpecMono == InitMono /\ [][NextMono]_vars

ScoredBoth == pc = "compared" /\ ~IsNone(ret)

\* C12: with every other field and the budget fixed, the efficiency does not
\* increase when retry_loops, tool_calls or repeated_context_ratio increases.
C12_EfficiencyNeverIncreases ==
    ScoredBoth => The(ret).raised.efficiency <= The(ret).base.efficiency

\* From 16 to 35 tool calls, between the threshold of 15 and the cap of the
\* penalty: the efficiency goes down.
C12_Witness ==
    /\ ScoredBoth
    /\ call.field = "tool_calls"
    /\ call.summary.tool_calls = 16
    /\ call.raised = 35
    /\ The(ret).raised.efficiency < The(ret).base.efficiency

(***************************************************************************)
(* build_drivers                                                           *)
(*                                                                         *)
(* int() of a float drops the fraction.  Where the exact value is a whole  *)
(* number k and the float arithmetic that leads to it is inexact, the      *)
(* float is k or a hair below it, and int() gives k or k - 1: the impact   *)
(* named in `ties` takes the lower one.                                    *)
(***************************************************************************)

\* int(n/d) for n >= 0, d > 0; `inexact` says the float arithmetic is.
IntOf(n, d, inexact, field) ==
    IF n % d = 0 /\ inexact /\ field \in ties /\ n > 0 THEN (n \div d) - 1
    ELSE n \div d

\* A candidate (driver, impact); the details string is left out.
Driver(name, impact) == [driver |-> name, impact |-> impact]

\* drivers, in the order of the append calls.
DriverCandidates(summary) ==
    LET total == summary["total_tokens"]
        uncached == Get(summary, "uncached_tokens", total)
        cache_read == Get(summary, "cache_read_tokens", 0)
        raw_messages == Get(summary, "messages", 0)
        messages == Max(1, raw_messages)
        tools == Get(summary, "tool_calls", 0)
        retries == Get(summary, "retry_loops", 0)
        repeated == Get(summary, "repeated_context_ratio", 0)
        \* (uncached_avg - 400) * max(1, messages * 0.2)
        \*     = (uncached - 400*messages) * max(5, messages) / (5 * messages)
        per_message == IntOf((uncached - 400 * messages) * Max(5, raw_messages),
                             5 * messages, uncached % messages /= 0,
                             "high_tokens_impact")
    IN  << Driver("Session size", uncached) >>
        \o (IF cache_read > 0
            THEN << Driver("Cache read volume", cache_read \div 10) >> ELSE << >>)
        \o (IF uncached > 400 * messages
            THEN << Driver("High tokens per message", Max(0, per_message)) >> ELSE << >>)
        \o (IF retries > 0
            THEN << Driver("Retry/rewrite loops", retries * 350) >> ELSE << >>)
        \o (IF tools > 20
            THEN << Driver("High tool-call volume", (tools - 20) * 120) >> ELSE << >>)
        \o (IF repeated > 150
            \* int(repeated * total * 0.4), repeated in thousandths
            THEN << Driver("Repeated context",
                           IntOf(repeated * total, 2500, TRUE, "repeated_impact")) >>
            ELSE << >>)

RECURSIVE InsertDriver(_, _)
\* x, which the list had before every element of `sorted`, put in its place:
\* before the first element that is not larger (the sort is stable).
InsertDriver(x, sorted) ==
    IF sorted = << >> THEN <<x>>
    ELSE IF Head(sorted).impact <= x.impact THEN <<x>> \o sorted
    ELSE <<Head(sorted)>> \o InsertDriver(x, Tail(sorted))

RECURSIVE SortDrivers(_)
\* drivers.sort(key=lambda x: x[1], reverse=True)
SortDrivers(drivers) ==
    IF drivers = << >> THEN << >>
    ELSE InsertDriver(Head(drivers), SortDrivers(Tail(drivers)))

\* Mutant of TopDrivers: the cut is after four.
TopDrivers_Four(drivers) == IF Len(drivers) <= 4 THEN drivers ELSE SubSeq(drivers, 1, 4)

\* Mutant of TopDrivers: the whole list.
TopDrivers_All(drivers) == drivers

\* drivers[:5]
TopDrivers(drivers) == IF Len(drivers) <= 5 THEN drivers ELSE SubSeq(drivers, 1, 5)

build_drivers(summary) ==
    LET top == TopDrivers(SortDrivers(DriverCandidates(summary)))
        out == [i \in DOMAIN top |->
                   [rank                   |-> i,
                    driver                 |-> top[i].driver,
                    estimated_token_impact |-> Max(0, top[i].impact)]]
    IN  IF out = << >>
        THEN << [rank |-> 1, driver |-> "No dominant driver detected",
                 estimated_token_impact |-> 0] >>
        ELSE out

(***************************************************************************)
(* SpecDrivers: build_drivers over summaries with none to all six drivers  *)
(***************************************************************************)

DriverUncached == {0, 401, 6005, 25000}
DriverCacheRead == {0, 1000, 50000}
DriverMessages == {0, 15, 50}
DriverToolCalls == {10, 21, 60}
DriverRetries == {0, 3}
DriverRepeated == {0, 150, 167, 1000}

DriverSummaries ==
    { [input_tokens |-> u, output_tokens |-> 0, uncached_tokens |-> u,
       cache_creation_tokens |-> 0, cache_read_tokens |-> c, total_tokens |-> u + c,
       messages |-> m,
       avg_tokens_per_message |-> IF m > 0 THEN ((u + c) * 100) \div m ELSE 0,
       tool_calls |-> t, retry_loops |-> r, repeated_context_ratio |-> x] :
          u \in DriverUncached, c \in DriverCacheRead, m \in DriverMessages,
          t \in DriverToolCalls, r \in DriverRetries, x \in DriverRepeated }

InitDrivers ==
    /\ call \in [summary : DriverSummaries]
    /\ ret = None
    /\ pc = "build_drivers"
    /\ trend = Idle
    /\ frame = Idle
    /\ hist = Idle
    /\ ties \in SUBSET {"high_tokens_impact", "repeated_impact"}

BuildDrivers ==
    /\ pc = "build_drivers"
    /\ ret' = Some([drivers |-> build_drivers(call.summary)])
    /\ pc' = "done"
    /\ UNCHANGED <<trend, frame, hist, call, ties>>

NextDrivers == BuildDrivers

SpecDrivers == InitDrivers /\ [][NextDrivers]_vars

Attributed == pc = "done" /\ ~IsNone(ret)

TheDrivers == The(ret).drivers

\* C16: build_drivers returns between 1 and 5 entries, with non-negative
\* impacts in non-increasing order and ranks 1..n in list order.
C16_OneToFiveDriversRanked ==
    Attributed =>
        /\ Len(TheDrivers) >= 1
        /\ Len(TheDrivers) <= 5
        /\ \A i \in DOMAIN TheDrivers :
              /\ TheDrivers[i].rank = i
              /\ TheDrivers[i].estimated_token_impact >= 0
              /\ i > 1 => TheDrivers[i].estimated_token_impact
                              <= TheDrivers[i - 1].estimated_token_impact

\* A summary that has all six drivers: five are returned, and not in the
\* order they were found in.
C16_Witness ==
    /\ Attributed
    /\ Len(DriverCandidates(call.summary)) = 6
    /\ Len(TheDrivers) = 5
    /\ TheDrivers[2].driver = "High tokens per message"
    /\ TheDrivers[5].estimated_token_impact > 0

(***************************************************************************)
(* SpecConfidence: score_summary around the limits of the confidence       *)
(***************************************************************************)

ConfUncached == {0, 1, 5000, 10000}
ConfCacheRead == {0, 1, 5000}
ConfReliability == {0, 74, 75, 89, 90, 95, 100}

ConfSummaries ==
    { [input_tokens |-> u, output_tokens |-> 0, uncached_tokens |-> u,
       cache_creation_tokens |-> 0, cache_read_tokens |-> c, total_tokens |-> u + c,
       messages |-> 4, avg_tokens_per_message |-> ((u + c) * 100) \div 4,
       tool_calls |-> 3, retry_loops |-> 0, repeated_context_ratio |-> 0] :
          u \in ConfUncached, c \in ConfCacheRead }

InitConfidence ==
    /\ call \in [summary : ConfSummaries,
                 args : {a \in ScoreBudgetArgs : IsNone(a.max_tokens)},
                 source_reliability : ConfReliability]
    /\ ret = None
    /\ pc = "build_budget"
    /\ trend = Idle
    /\ frame = Idle
    /\ hist = Idle
    /\ ties = {}

SpecConfidence == InitConfidence /\ [][NextScore]_vars

\* C17: confidence is "high" iff source_reliability >= 0.9 and total_tokens >
\* 10000; otherwise "medium" iff source_reliability >= 0.75 and total_tokens
\* > 0; otherwise "low".
C17_ConfidenceLevels ==
    Scored =>
        LET high == call.source_reliability >= 90 /\ call.summary.total_tokens > 10000
            medium == call.source_reliability >= 75 /\ call.summary.total_tokens > 0
        IN  /\ TheScores.confidence = "high" <=> high
            /\ TheScores.confidence = "medium" <=> (~high /\ medium)
            /\ TheScores.confidence = "low" <=> (~high /\ ~medium)

\* A reliability of exactly 0.9 with exactly 10000 tokens: "medium", not "high".
C17_Witness ==
    /\ Scored
    /\ call.source_reliability = 90
    /\ call.summary.total_tokens = 10000
    /\ TheScores.confidence = "medium"

(***************************************************************************)
(* SpecMissing: the four functions of the core on summaries with fields    *)
(* missing.  A call returns a value or raises; summary["k"] raises         *)
(* KeyError when the summary has no k.                                     *)
(***************************************************************************)

Returned(v) == [raised |-> FALSE, value |-> v]

Raised(exc) == [raised |-> TRUE, value |-> exc]

\* build_budget reads summary["total_tokens"] once it has a budget to build.
Call_build_budget(summary, a) ==
    IF HasBudget(a) /\ "total_tokens" \notin DOMAIN summary THEN Raised("KeyError")
    ELSE Returned(build_budget(summary, a))

\* score_summary reads summary["total_tokens"] first.
Call_score_summary(summary, budget, source_reliability) ==
    IF "total_tokens" \notin DOMAIN summary THEN Raised("KeyError")
    ELSE Returned(score_summary(summary, budget, source_reliability))

\* evaluate_run reads the summary with .get() only.
Call_evaluate_run(summary, run_type) == Returned(evaluate_run(summary, run_type))

\* build_drivers reads summary["total_tokens"] first.
Call_build_drivers(summary) ==
    IF "total_tokens" \notin DOMAIN summary THEN Raised("KeyError")
    ELSE Returned(build_drivers(summary))

\* A summary with only the fields of `present`.
Restrict(summary, present) == [k \in present |-> summary[k]]

InitMissing ==
    /\ call \in [summary : {Restrict(ClaudeSummary, present) :
                               present \in SUBSET DOMAIN ClaudeSummary},
                 args : {a \in ScoreBudgetArgs : IsNone(a.max_cost_usd)},
                 source_reliability : {95},
                 run_type : {"real"}]
    /\ ret = None
    /\ pc = "build_budget"
    /\ trend = Idle
    /\ frame = Idle
    /\ hist = Idle
    /\ ties = {}

TryBuildBudget ==
    /\ pc = "build_budget"
    /\ ret' = Some([build_budget |-> Call_build_budget(call.summary, call.args)])
    /\ pc' = "score_summary"
    /\ UNCHANGED <<trend, frame, hist, call, ties>>

\* score_summary with the budget build_budget returned, or none if it raised.
TryScoreSummary ==
    /\ pc = "score_summary"
    /\ LET b == The(ret).build_budget
           budget == IF b.raised THEN None ELSE b.value
       IN  ret' = Some([build_budget |-> b,
                        score_summary |-> Call_score_summary(call.summary, budget,
                                                             call.source_reliability)])
    /\ pc' = "evaluate_run"
    /\ UNCHANGED <<trend, frame, hist, call, ties>>

TryEvaluateRun ==
    /\ pc = "evaluate_run"
    /\ ret' = Some([build_budget |-> The(ret).build_budget,
                    score_summary |-> The(ret).score_summary,
                    evaluate_run |-> Call_evaluate_run(call.summary, call.run_type)])
    /\ pc' = "build_drivers"
    /\ UNCHANGED <<trend, frame, hist, call, ties>>

TryBuildDrivers ==
    /\ pc = "build_drivers"
    /\ ret' = Some([build_budget |-> The(ret).build_budget,
                    score_summary |-> The(ret).score_summary,
                    evaluate_run |-> The(ret).evaluate_run,
                    build_drivers |-> Call_build_drivers(call.summary)])
    /\ pc' = "done"
    /\ UNCHANGED <<trend, frame, hist, call, ties>>

NextMissing == TryBuildBudget \/ TryScoreSummary \/ TryEvaluateRun \/ TryBuildDrivers

SpecMissing == InitMissing /\ [][NextMissing]_vars

\* C18: whatever fields the summary lacks, build_budget, score_summary,
\* evaluate_run and build_drivers each return a result and none raises.
C18_MissingFieldsNeverRaise ==
    (pc = "done" /\ ~IsNone(ret)) =>
        \A f \in DOMAIN The(ret) : ~The(ret)[f].raised

\* Where C18 holds of the code: a summary that has total_tokens, and evaluate_run.
MissingButTotalNeverRaises ==
    (pc = "done" /\ ~IsNone(ret)) =>
        /\ ~The(ret).evaluate_run.raised
        /\ "total_tokens" \in DOMAIN call.summary =>
              \A f \in DOMAIN The(ret) : ~The(ret)[f].raised

(***************************************************************************)
(* The rows one run of main adds (SpecSeq)                                 *)
(***************************************************************************)

\* A run of main has ended.
Ran == ~IsNone(ret) /\ ~IsNone(hist.args)

\* C19: a run with a trend file whose collection succeeds adds exactly one
\* row to the ledger (its own, last); a run whose collection fails returns 1
\* and leaves the ledger as it was; a run without a trend file leaves it as
\* it was and has no baseline read from it.
C19_OneRowPerLedgerRun ==
    Ran =>
        LET a == The(hist.args)
            rows == read_trend_rows(trend)
        IN  /\ (a.trend_file /\ ~IsNone(a.collect)) =>
                  /\ The(ret).rc = 0
                  /\ Len(rows) = Len(RowsBefore) + 1
                  /\ rows[Len(rows)]["session_reference_id"] = a.session_reference_id
            /\ IsNone(a.collect) =>
                  /\ The(ret).rc = 1
                  /\ trend = hist.before
            /\ ~a.trend_file =>
                  /\ trend = hist.before
                  /\ ~IsNone(The(ret).report) =>
                        IsNone(The(The(ret).report).baseline_delta)

\* A run with the trend file on a ledger of three rows: it returned 0 and
\* the ledger has four.
C19_Witness ==
    /\ Ran
    /\ Appended
    /\ Len(RowsBefore) = 3
    /\ Len(read_trend_rows(trend)) = 4

(***************************************************************************)
(* The threshold tables across run types (SpecEval)                        *)
(***************************************************************************)

\* smoke is the tightest run type, real the loosest.
Severity(run_type) ==
    IF run_type = "smoke" THEN 1 ELSE IF run_type = "workflow" THEN 2 ELSE 3

ThresholdMetrics == {"uncached_tokens", "cost_usd", "retry_loops"}

\* The warn or fail limit ("warn_uncached_tokens", ...) of a metric in a table.
LimitOf(t, kind, metric) ==
    IF metric = "uncached_tokens"
    THEN (IF kind = "warn" THEN t.warn_uncached_tokens ELSE t.fail_uncached_tokens)
    ELSE IF metric = "cost_usd"
    THEN (IF kind = "warn" THEN t.warn_cost_usd ELSE t.fail_cost_usd)
    ELSE (IF kind = "warn" THEN t.warn_retry_loops ELSE t.fail_retry_loops)

\* C20: in every table warn_limit <= fail_limit for each metric; every warn
\* and every fail limit is non-decreasing from smoke to workflow to real; and
\* a check the summary passes under the run type evaluated is passed under
\* every looser run type.
C20_LimitsGrowWithRunType ==
    /\ \A rt \in RunTypes, m \in ThresholdMetrics :
          LimitOf(run_type_thresholds(rt), "warn", m)
              <= LimitOf(run_type_thresholds(rt), "fail", m)
    /\ \A tight \in RunTypes, loose \in RunTypes, m \in ThresholdMetrics :
          Severity(tight) <= Severity(loose) =>
              /\ LimitOf(run_type_thresholds(tight), "warn", m)
                     <= LimitOf(run_type_thresholds(loose), "warn", m)
              /\ LimitOf(run_type_thresholds(tight), "fail", m)
                     <= LimitOf(run_type_thresholds(loose), "fail", m)
    /\ Evaluated =>
          \A loose \in RunTypes, i \in 1..3 :
              (Severity(call.run_type) <= Severity(loose) /\ The(ret).checks[i].status = "pass")
                  => evaluate_run(call.summary, loose).checks[i].status = "pass"

\* 50000 uncached tokens (the workflow warn limit) pass a workflow run, and a
\* real one; the nine retries of the same summary fail both.
C20_Witness ==
    /\ Evaluated
    /\ call.run_type = "workflow"
    /\ The(ret).checks[1].value = 50000
    /\ The(ret).checks[1].status = "pass"
    /\ evaluate_run(call.summary, "real").checks[1].status = "pass"
    /\ evaluate_run(call.summary, "smoke").checks[1].status = "fail"
    /\ The(ret).checks[3].status = "fail"

(***************************************************************************)
(* ci-verdict-gate.py: the CI gate reading a review report.                *)
(* Texts the gate compares are sequences of characters, so that str() and  *)
(* lower() are computed.  A JSON scalar is [kind, text, truthy]: text is   *)
(* what Python's str() gives for it, truthy what `or` tests.               *)
(***************************************************************************)

UpperCase == << "A", "E", "F", "I", "L", "N", "O", "P", "R", "S", "T", "W" >>
LowerCase == << "a", "e", "f", "i", "l", "n", "o", "p", "r", "s", "t", "w" >>

\* str.lower on one character (over the letters the reports use).
LowerChar(c) ==
    IF \E i \in DOMAIN UpperCase : UpperCase[i] = c
    THEN LowerCase[CHOOSE i \in DOMAIN UpperCase : UpperCase[i] = c]
    ELSE c

\* str.lower
Lower(s) == [i \in DOMAIN s |-> LowerChar(s[i])]

JString(s) == [kind |-> "string", text |-> s, truthy |-> Len(s) > 0]
JNull == [kind |-> "null", text |-> << "N", "o", "n", "e" >>, truthy |-> FALSE]
JTrue == [kind |-> "bool", text |-> << "T", "r", "u", "e" >>, truthy |-> TRUE]

\* str(value)
PyStr(v) == v.text

\* The value of "evaluation": an object with or without "verdict", or a
\* JSON value of another kind.
JObject(verdict) == [kind |-> "object", truthy |-> ~IsNone(verdict), verdict |-> verdict]
JOther(kind, truthy) == [kind |-> kind, truthy |-> truthy, verdict |-> None]
EmptyObject == [kind |-> "object", truthy |-> FALSE, verdict |-> None]

T_smoke == << "s", "m", "o", "k", "e" >>
T_workflow == << "w", "o", "r", "k", "f", "l", "o", "w" >>
T_real == << "r", "e", "a", "l" >>
T_fail == << "f", "a", "i", "l" >>
T_pass == << "p", "a", "s", "s" >>
T_warn == << "w", "a", "r", "n" >>

\* Mutant of ci_verdict_gate_main: the verdict is looked at before the run type.
ci_verdict_gate_main_VerdictFirst(f) ==
    IF ~f.exists THEN Returned(2)
    ELSE IF ~f.parses THEN Returned(2)
    ELSE IF f.kind # "object" THEN Raised("AttributeError")
    ELSE
    LET run_type == PyStr(IF IsNone(f.run_type) THEN JString(T_real) ELSE The(f.run_type))
        found == IF IsNone(f.evaluation) THEN EmptyObject ELSE The(f.evaluation)
        evaluation == IF found.truthy THEN found ELSE EmptyObject
    IN  IF evaluation.kind # "object" THEN Raised("AttributeError")
        ELSE
        LET verdict == Lower(PyStr(IF IsNone(evaluation.verdict) THEN JString(<< >>)
                                   ELSE The(evaluation.verdict)))
        IN  IF verdict = T_fail THEN Returned(1)
            ELSE IF run_type = T_smoke THEN Returned(0)
            ELSE IF run_type \notin {T_workflow, T_real} THEN Returned(2)
            ELSE IF verdict \in {T_pass, T_warn} THEN Returned(0)
            ELSE Returned(2)

\* main of ci-verdict-gate.py on the report file f =
\* [exists, parses, kind, run_type, evaluation]: the value it returns, or
\* the exception that leaves it.
ci_verdict_gate_main(f) ==
    IF ~f.exists THEN Returned(2)
    ELSE IF ~f.parses THEN Returned(2)
    ELSE IF f.kind # "object" THEN Raised("AttributeError")
    ELSE
    LET run_type == PyStr(IF IsNone(f.run_type) THEN JString(T_real) ELSE The(f.run_type))
        found == IF IsNone(f.evaluation) THEN EmptyObject ELSE The(f.evaluation)
        evaluation == IF found.truthy THEN found ELSE EmptyObject
    IN  IF evaluation.kind # "object" THEN Raised("AttributeError")
        ELSE
        LET verdict == Lower(PyStr(IF IsNone(evaluation.verdict) THEN JString(<< >>)
                                   ELSE The(evaluation.verdict)))
        IN  IF run_type = T_smoke THEN Returned(0)
            ELSE IF run_type \notin {T_workflow, T_real} THEN Returned(2)
            ELSE IF verdict = T_fail THEN Returned(1)
            ELSE IF verdict \in {T_pass, T_warn} THEN Returned(0)
            ELSE Returned(2)

\* raise SystemExit(main()): the exit status of the process; an exception
\* nothing catches ends the interpreter with status 1.
ExitStatus(r) == IF r.raised THEN 1 ELSE r.value

(***************************************************************************)
(* SpecGate: one run of the gate on a report file.                         *)
(* call = the file, ret = the exit status.                                 *)
(***************************************************************************)

GateRunTypes ==
    { None, Some(JString(T_smoke)), Some(JString(T_workflow)), Some(JString(T_real)),
      Some(JString(<< "S", "m", "o", "k", "e" >>)),
      Some(JString(<< "n", "i", "g", "h", "t", "l", "y" >>)), Some(JNull) }

GateVerdicts ==
    { None, Some(JString(T_pass)), Some(JString(T_warn)), Some(JString(T_fail)),
      Some(JString(<< "F", "A", "I", "L" >>)), Some(JString(<< "P", "a", "s", "s" >>)),
      Some(JString(<< "W", "A", "R", "N" >>)), Some(JString(<< "e", "r", "r", "o", "r" >>)),
      Some(JString(<< >>)), Some(JNull), Some(JTrue) }

GateEvaluations ==
    { None, Some(JOther("null", FALSE)), Some(JOther("number", FALSE)),
      Some(JOther("string", TRUE)), Some(JOther("array", TRUE)) }
    \cup { Some(JObject(v)) : v \in GateVerdicts }

NoReport == [exists |-> FALSE, parses |-> FALSE, kind |-> "none",
             run_type |-> None, evaluation |-> None]
NotJson == [NoReport EXCEPT !.exists = TRUE]
JsonArray == [NotJson EXCEPT !.parses = TRUE, !.kind = "array"]
JsonReport(run_type, evaluation) ==
    [exists |-> TRUE, parses |-> TRUE, kind |-> "object",
     run_type |-> run_type, evaluation |-> evaluation]

GateFiles ==
    { NoReport, NotJson, JsonArray }
    \cup { JsonReport(r, ev) : r \in GateRunTypes, ev \in GateEvaluations }

InitGate ==
    /\ call \in GateFiles
    /\ ret = None
    /\ pc = "ready"
    /\ trend = Idle
    /\ frame = Idle
    /\ hist = Idle
    /\ ties = {}

Gate ==
    /\ pc = "ready"
    /\ ret' = Some(ExitStatus(ci_verdict_gate_main(call)))
    /\ pc' = "done"
    /\ UNCHANGED <<trend, frame, hist, call, ties>>

NextGate == Gate

SpecGate == InitGate /\ [][NextGate]_vars

Gated == pc = "done" /\ ~IsNone(ret)

IsJsonObject(f) == f.exists /\ f.parses /\ f.kind = "object"

RunTypeIs(f, texts) ==
    IsJsonObject(f) /\ ~IsNone(f.run_type) /\ The(f.run_type).kind = "string"
    /\ PyStr(The(f.run_type)) \in texts

\* The verdict of a report, lower-cased, when its "evaluation" is an object
\* with a string "verdict"; None otherwise (missing).
VerdictOf(f) ==
    IF IsJsonObject(f) /\ ~IsNone(f.evaluation) /\ The(f.evaluation).kind = "object"
       /\ ~IsNone(The(f.evaluation).verdict) /\ The(The(f.evaluation).verdict).kind = "string"
    THEN Some(Lower(PyStr(The(The(f.evaluation).verdict))))
    ELSE None

\* C21: a smoke run never blocks: for every readable report that is a JSON
\* object with run_type "smoke" the gate exits 0, whatever the verdict is
\* (fail, missing, not a verdict).
C21_SmokeNeverBlocks ==
    (Gated /\ RunTypeIs(call, {T_smoke})) => The(ret) = 0

\* The same for the reports whose "evaluation" is an object or absent.
SmokeWithEvaluationObject ==
    (Gated /\ RunTypeIs(call, {T_smoke})
     /\ (IsNone(call.evaluation) \/ The(call.evaluation).kind \in {"object", "null"}))
    => The(ret) = 0

\* Exit status the gate's policy gives to a report file.
PolicyStatus(f) ==
    IF ~IsJsonObject(f) THEN 2
    ELSE IF RunTypeIs(f, {T_smoke}) THEN 0
    ELSE IF ~(IsNone(f.run_type) \/ RunTypeIs(f, {T_workflow, T_real})) THEN 2
    ELSE IF VerdictOf(f) = Some(T_fail) THEN 1
    ELSE IF VerdictOf(f) \in {Some(T_pass), Some(T_warn)} THEN 0
    ELSE 2

\* C22: for a report of run type workflow or real (absent counts as real)
\* the gate exits 1 iff the verdict, compared without case, is fail, 0 iff
\* it is pass or warn, and 2 for any other or missing verdict; it exits 2
\* for a missing file, for a file that is not JSON, and for any other run
\* type than smoke, workflow, real.
C22_ExitStatusFollowsVerdict ==
    (Gated /\ (~call.exists \/ ~call.parses \/ (IsJsonObject(call) /\ ~RunTypeIs(call, {T_smoke}))))
    => The(ret) = PolicyStatus(call)

\* The same for the reports whose "evaluation" is an object, null or absent.
PolicyWithEvaluationObject ==
    (Gated /\ (~call.exists \/ ~call.parses
               \/ (IsJsonObject(call)
                   /\ (IsNone(call.evaluation)
                       \/ The(call.evaluation).kind \in {"object", "null"}))))
    => The(ret) = PolicyStatus(call)

(***************************************************************************)
(* The trend file as text: what csv.DictWriter puts on disk and what       *)
(* csv.DictReader makes of it.  A text is a sequence of pieces: the four   *)
(* characters the csv dialect treats specially, each a piece of its own,   *)
(* and runs of other characters, one piece per run.                        *)
(***************************************************************************)

Comma == ","
Quote == "\""
CR == "\r"
LF == "\n"
Specials == {Comma, Quote, CR, LF}

\* The pieces of a text (texts without a special character are one run).
Chars(s) ==
    CASE s = "" -> << >>
      [] s = "a,b" -> << "a", Comma, "b" >>
      [] s = "say \"hi\"" -> << "say ", Quote, "hi", Quote >>
      [] s = "\"\"" -> << Quote, Quote >>
      [] s = "two\nlines" -> << "two", LF, "lines" >>
      [] s = "cr\rlf" -> << "cr", CR, "lf" >>
      [] s = "end\r\n" -> << "end", CR, LF >>
      [] OTHER -> << s >>

\* The text the writer is given for a cell: the cell's string, and for a
\* number its numeral (digits, sign, point: one run).
CellChars(c) == IF c.isnum THEN << ToString(c.num) >> ELSE Chars(c.txt)

\* Mutant of NeedsQuotes: line ends inside a field are not looked for.
NeedsQuotes_NoLineEnds(f) == \E i \in DOMAIN f : f[i] \in {Comma, Quote}

\* QUOTE_MINIMAL: a field is quoted when it holds the delimiter, the quote
\* character or a character of the line terminator.
NeedsQuotes(f) == \E i \in DOMAIN f : f[i] \in Specials

RECURSIVE Doubled(_)
\* doublequote: every quote character of a quoted field is written twice.
Doubled(f) ==
    IF f = << >> THEN << >>
    ELSE (IF Head(f) = Quote THEN << Quote, Quote >> ELSE << Head(f) >>) \o Doubled(Tail(f))

CsvField(f) == IF NeedsQuotes(f) THEN << Quote >> \o Doubled(f) \o << Quote >> ELSE f

RECURSIVE JoinFields(_)
JoinFields(fs) ==
    IF fs = << >> THEN << >>
    ELSE IF Len(fs) = 1 THEN CsvField(fs[1])
    ELSE CsvField(fs[1]) \o << Comma >> \o JoinFields(Tail(fs))

\* writerow: the fields, delimited, and the line terminator "\r\n".
CsvLine(fs) == JoinFields(fs) \o << CR, LF >>

RECURSIVE CsvLines(_)
CsvLines(rows) == IF rows = << >> THEN << >> ELSE CsvLine(Head(rows)) \o CsvLines(Tail(rows))

\* The reader's automaton: st = [state, field, record, records].
SaveField(st) == [st EXCEPT !.record = Append(st.record, st.field), !.field = << >>]
EndRecord(st, c) ==
    [state |-> IF c = CR THEN "eat_crnl" ELSE "start_record",
     field |-> << >>, record |-> << >>, records |-> Append(st.records, st.record)]
AddChar(st, c, state) == [st EXCEPT !.field = Append(st.field, c), !.state = state]

StartField(st, c) ==
    IF c \in {CR, LF} THEN EndRecord(SaveField(st), c)
    ELSE IF c = Quote THEN [st EXCEPT !.state = "in_quoted_field"]
    ELSE IF c = Comma THEN [SaveField(st) EXCEPT !.state = "start_field"]
    ELSE AddChar(st, c, "in_field")

StartRecord(st, c) ==
    IF c \in {CR, LF} THEN EndRecord(st, c) ELSE StartField(st, c)

CsvStep(st, c) ==
    CASE st.state = "start_record" -> StartRecord(st, c)
      [] st.state = "eat_crnl" ->
            IF c = LF THEN [st EXCEPT !.state = "start_record"] ELSE StartRecord(st, c)
      [] st.state = "start_field" -> StartField(st, c)
      [] st.state = "in_field" ->
            IF c \in {CR, LF} THEN EndRecord(SaveField(st), c)
            ELSE IF c = Comma THEN [SaveField(st) EXCEPT !.state = "start_field"]
            ELSE AddChar(st, c, "in_field")
      [] st.state = "in_quoted_field" ->
            IF c = Quote THEN [st EXCEPT !.state = "quote_in_quoted_field"]
            ELSE AddChar(st, c, "in_quoted_field")
      [] OTHER ->
            IF c = Quote THEN AddChar(st, c, "in_quoted_field")
            ELSE IF c = Comma THEN [SaveField(st) EXCEPT !.state = "start_field"]
            ELSE IF c \in {CR, LF} THEN EndRecord(SaveField(st), c)
            ELSE AddChar(st, c, "in_field")

RECURSIVE ScanRecord(_, _, _)
\* The automaton run from piece i until a record is complete or the text ends.
ScanRecord(text, i, st) ==
    IF i > Len(text) \/ st.records # << >> THEN [next |-> i, st |-> st]
    ELSE ScanRecord(text, i + 1, CsvStep(st, text[i]))

RECURSIVE CsvScan(_, _, _)
\* The records from piece i on, the automaton being in `state` there; a
\* record the end of the text cuts short is returned as it stands.
CsvScan(text, i, state) ==
    IF i > Len(text) THEN << >>
    ELSE LET r == ScanRecord(text, i, [state |-> state, field |-> << >>,
                                        record |-> << >>, records |-> << >>])
         IN  IF r.st.records # << >> THEN r.st.records \o CsvScan(text, r.next, r.st.state)
             ELSE IF r.st.state \in {"start_record", "eat_crnl"} THEN << >>
             ELSE << Append(r.st.record, r.st.field) >>

\* csv.reader over the whole text: the records, each a sequence of fields.
CsvRecords(text) == CsvScan(text, 1, "start_record")

\* A column name read from the header line.
NameOf(f) == IF Len(f) = 1 THEN f[1] ELSE "?"

\* csv.DictReader: the first record names the columns; every later record
\* that is not empty is a dict of its fields under those names.
DictReader(text) ==
    LET records == CsvRecords(text)
        names == IF records = << >> THEN << >>
                 ELSE [i \in DOMAIN records[1] |-> NameOf(records[1][i])]
        data == SelectSeq(IF records = << >> THEN << >> ELSE Tail(records),
                          LAMBDA r : r # << >>)
    IN  [fieldnames |-> names,
         rows |-> [j \in DOMAIN data |->
                     LET n == Min(Len(names), Len(data[j]))
                     IN  [k \in {names[i] : i \in 1..n} |-> data[j][IndexOf(names, k)]]]]

\* read_trend_rows on the text of the file.
read_trend_text(disk) == IF ~disk.exists THEN << >> ELSE DictReader(disk.text).rows

\* writeheader() and writerows(): the text of a file with these columns and rows.
FileText(file) ==
    (IF file.fields = << >> THEN << >>
     ELSE CsvLine([i \in DOMAIN file.fields |-> << file.fields[i] >>]))
    \o CsvLines([j \in DOMAIN file.rows |->
                    [i \in DOMAIN file.fields |-> CellChars(file.rows[j][file.fields[i]])]])

DiskOf(file) ==
    IF file.exists THEN [exists |-> TRUE, text |-> FileText(file)]
    ELSE [exists |-> FALSE, text |-> << >>]

\* append_trend_row on the text: the file is rewritten ("w") when it is
\* missing, has no rows or has another header, and the new line is added
\* at its end ("a").
append_trend_text(disk, file, row) ==
    LET rewrite == ~file.exists \/ read_trend_rows(file) = << >> \/ file.fields # header
        kept == IF rewrite THEN FileText(EnsureHeader(file)) ELSE disk.text
    IN  [exists |-> TRUE,
         text |-> kept \o CsvLine([i \in DOMAIN header |-> CellChars(row[header[i]])])]

(***************************************************************************)
(* SpecCsv: rows appended to a trend file and read back.                   *)
(* trend = the file (columns and rows), frame = its text on disk,          *)
(* call = the arguments of the last append, hist = the number of appends,  *)
(* ret = what read_trend_rows read from the text.                          *)
(***************************************************************************)

MaxAppends == 2

AwkwardTexts ==
    { "", "a,b", "say \"hi\"", "\"\"", "two\nlines", "cr\rlf", "end\r\n", " lead" }

FreeColumns == {"session_reference_id", "session_id", "report_path"}

CsvFiles ==
    { MissingFile, EmptyFile, FileWith(header, 0), FileWith(LegacyHeader, 0),
      FileWith(header, 2), FileWith(LegacyHeader, 2) }

\* A report whose free-text value t is in column col.
CsvReport(col, t) ==
    [source |-> "codex", run_type |-> "workflow",
     session_reference_id |-> Text(IF col = "session_reference_id" THEN t ELSE "ref"),
     session_id |-> Text(IF col = "session_id" THEN t ELSE "sid"),
     summary |-> ClaudeSummary,
     scores |-> [efficiency |-> 9998, reliability |-> 8400, composite |-> 9300],
     evaluation |-> [verdict |-> "warn"]]

InitCsv ==
    /\ trend \in CsvFiles
    /\ frame = DiskOf(trend)
    /\ call = None
    /\ hist = 0
    /\ ret = None
    /\ pc = "ready"
    /\ ties = {}

AppendTrendRow ==
    /\ pc \in {"ready", "read"}
    /\ hist < MaxAppends
    /\ \E col \in FreeColumns, t \in AwkwardTexts :
        LET report == CsvReport(col, t)
            report_path == IF col = "report_path" THEN t ELSE "out/report.json"
        IN  /\ call' = Some([report |-> report, report_path |-> report_path,
                             project_slug |-> "alpha", col |-> col, text |-> t])
            /\ frame' = append_trend_text(frame, trend, NewRow(report, report_path, "alpha"))
            /\ trend' = append_trend_row(trend, report, report_path, "alpha")
    /\ hist' = hist + 1
    /\ pc' = "appended"
    /\ ret' = None
    /\ UNCHANGED ties

ReadTrendRows ==
    /\ pc = "appended"
    /\ ret' = Some(read_trend_text(frame))
    /\ pc' = "read"
    /\ UNCHANGED <<trend, frame, call, hist, ties>>

NextCsv == AppendTrendRow \/ ReadTrendRows

SpecCsv == InitCsv /\ [][NextCsv]_vars

ReadBack == pc = "read" /\ ~IsNone(ret) /\ ~IsNone(call)

\* The text on disk reads as the file's columns and rows.
DiskAgrees ==
    trend.exists =>
        LET d == DictReader(frame.text)
        IN  /\ d.fieldnames = trend.fields
            /\ Len(d.rows) = Len(trend.rows)
            /\ \A j \in DOMAIN d.rows :
                 /\ DOMAIN d.rows[j] = DOMAIN trend.rows[j]
                 /\ \A k \in DOMAIN d.rows[j] : d.rows[j][k] = CellChars(trend.rows[j][k])

\* C23: after append_trend_row the last row read_trend_rows returns has
\* the 18 columns, and in each exactly the string form of the value that
\* was appended.
C23_LastRowReadsAsAppended ==
    ReadBack =>
        LET rows == The(ret)
            a == The(call)
            row == NewRow(a.report, a.report_path, a.project_slug)
        IN  /\ rows # << >>
            /\ DOMAIN rows[Len(rows)] = Range(header)
            /\ \A k \in Range(header) : rows[Len(rows)][k] = CellChars(row[k])

\* A row whose report path has a line end in it, appended after a migration
\* of two older rows and read back third.
C23_Witness ==
    /\ ReadBack
    /\ The(call).col = "report_path"
    /\ The(call).text = "two\nlines"
    /\ Len(The(ret)) = 3
    /\ hist = 1
    /\ The(ret)[3]["report_path"] = << "two", LF, "lines" >>

(***************************************************************************)
(* SpecMigrate: the baseline of a session read from a file with an older   *)
(* header, before and after append_trend_row migrated the file.            *)
(* trend = the file, call = the session, hist = [init: the file as found,  *)
(* before: the baseline read from it], ret = the baseline read from the    *)
(* migrated rows.                                                          *)
(***************************************************************************)

MaxOld == 3

\* Older headers: without the three newer columns; the same with a column
\* of its own; the current one without run_type; the current one without
\* total_tokens, efficiency and estimated_cost_usd.
NoRunTypeHeader == SelectSeq(header, LAMBDA k : k # "run_type")
NoTotalsHeader ==
    SelectSeq(header, LAMBDA k : k \notin {"total_tokens", "efficiency", "estimated_cost_usd"})
OlderHeaders == {LegacyHeader, ForeignHeader, NoRunTypeHeader, NoTotalsHeader}

OldRowKinds == {"match", "other", "smoke", "blank", "text"}

\* The stored row of kind k at position i of a file whose header is
\* `fields`: of the session's project or another, a smoke run, a row with
\* an empty uncached_tokens cell, a row whose total_tokens is not a number.
OldRow(k, i, fields) ==
    LET low == i % 2 = 1
        full == [c \in Range(header) \cup {"model_used"} |->
            CASE c = "project" -> Text(IF k = "other" THEN "beta" ELSE "alpha")
              [] c = "source" -> Text("codex")
              [] c = "run_type" -> Text(IF k = "smoke" THEN "smoke" ELSE "real")
              [] c = "uncached_tokens" ->
                    IF k = "blank" THEN Text("") ELSE Str(IF low THEN 30 ELSE 70)
              [] c = "total_tokens" ->
                    IF k = "text" THEN Text("n/a") ELSE Str(IF low THEN 35 ELSE 90)
              [] c = "efficiency" -> Str(IF low THEN 9000 ELSE 5001)
              [] c = "estimated_cost_usd" -> Str(IF low THEN 0 ELSE 7)
              [] OTHER -> Text("")]
    IN  [c \in Range(fields) |-> full[c]]

OldFiles ==
    UNION {{[exists |-> TRUE, fields |-> fields,
             rows |-> [i \in 1..n |-> OldRow(ks[i], i, fields)]] :
            ks \in [1..n -> OldRowKinds]} :
           n \in 1..MaxOld, fields \in OlderHeaders}

\* The report of the run that appends: a claude session of the same project.
MigratingReport ==
    [source |-> "claude", run_type |-> "real",
     session_reference_id |-> Text("ref"), session_id |-> Text("sid"),
     summary |-> ClaudeSummary,
     scores |-> [efficiency |-> 9998, reliability |-> 8400, composite |-> 9300],
     evaluation |-> [verdict |-> "pass"]]

BaselineOf(rows) ==
    baseline_delta(rows, call.project_slug, call.source, call.run_type,
                   call.summary, call.scores)

InitMigrate ==
    /\ trend \in OldFiles
    /\ call \in [project_slug : {"alpha"}, source : {"codex"},
                 run_type : {"real", "smoke"},
                 summary : {[uncached_tokens |-> 10, total_tokens |-> 12,
                             estimated_cost_usd |-> 5]},
                 scores : {[efficiency |-> 8000]}]
    /\ hist = [init |-> trend, before |-> None]
    /\ ret = None
    /\ pc = "legacy"
    /\ frame = Idle
    /\ ties \in SUBSET {"baseline_median", "delta"}

BaselineOnLegacy ==
    /\ pc = "legacy"
    /\ hist' = [hist EXCEPT !.before = Some(BaselineOf(read_trend_rows(trend)))]
    /\ pc' = "read"
    /\ UNCHANGED <<trend, frame, call, ret, ties>>

AppendMigrating ==
    /\ pc = "read"
    /\ trend' = append_trend_row(trend, MigratingReport, "out/report.json", "alpha")
    /\ pc' = "migrated"
    /\ UNCHANGED <<frame, hist, call, ret, ties>>

\* The rows of the file that were there before the append.
MigratedRows == SubSeq(read_trend_rows(trend), 1, Len(read_trend_rows(trend)) - 1)

BaselineOnMigrated ==
    /\ pc = "migrated"
    /\ ret' = Some(BaselineOf(MigratedRows))
    /\ pc' = "done"
    /\ UNCHANGED <<trend, frame, hist, call, ties>>

NextMigrate == BaselineOnLegacy \/ AppendMigrating \/ BaselineOnMigrated

SpecMigrate == InitMigrate /\ [][NextMigrate]_vars

\* C24: baseline_delta gives the same result on the rows of a file with an
\* older header (no uncached_tokens: total_tokens is used; no run_type: the
\* row is a real run) as on the rows append_trend_row migrated them to.
C24_BaselineSameAfterMigration ==
    (pc = "done" /\ ~IsNone(ret)) => hist.before = ret

\* Three rows without uncached_tokens and run_type columns, all of the
\* session's group: the baseline is the median of their total_tokens
\* (35, 90, 35) before and after the migration gave them the two columns.
C24_Witness ==
    /\ pc = "done"
    /\ ~IsNone(ret)
    /\ hist.init.fields = LegacyHeader
    /\ Len(hist.init.rows) = 3
    /\ trend.fields = header
    /\ "uncached_tokens" \in DOMAIN trend.rows[1]
    /\ ~IsNone(The(ret))
    /\ The(The(ret)).sample_size = 3
    /\ The(The(ret)).uncached_tokens.baseline_median = 3500

(***************************************************************************)
(* The collectors' summaries: summarize_from_agtrace, merge_claude_summary *)
(*                                                                         *)
(* A turn is [metrics, user_query, steps]: metrics None or the three       *)
(* counters, user_query None or a text, steps a sequence of                *)
(* [kind, text, count].  avg_tokens_per_message is in hundredths,          *)
(* repeated_context_ratio in thousandths, the cost in micro-dollars.       *)
(***************************************************************************)

RECURSIVE SumSeq(_)
SumSeq(ns) == IF ns = << >> THEN 0 ELSE Head(ns) + SumSeq(Tail(ns))

\* normalize_text: stripped, lower-cased, runs of blanks made one blank.
normalize_text(s) ==
    CASE s = " Fix  the BUG " -> "fix the bug"
      [] s = "Try again" -> "try again"
      [] s = "   " -> ""
      [] OTHER -> s

\* any(tok in norm for tok in RETRY_TOKENS)
HasRetryToken(norm) == norm \in {"try again", "the build failed"}

\* isinstance(user_query, str) and user_query.strip()
IsQuery(q) == ~IsNone(q) /\ normalize_text(The(q)) # ""

Metric(turn, k) == IF IsNone(turn.metrics) THEN 0 ELSE Get(The(turn.metrics), k, 0)

MessageSteps(turn) == SelectSeq(turn.steps, LAMBDA st : st.kind = "Message")

StepToolCalls(st) ==
    CASE st.kind = "ToolCall" -> 1
      [] st.kind = "ToolCallSequence" -> st.count
      [] OTHER -> 0

StepRetries(st) ==
    IF st.kind = "Message" /\ ~IsNone(st.text) /\ HasRetryToken(normalize_text(The(st.text)))
    THEN 1 ELSE 0

summarize_from_agtrace(turns) ==
    LET input_tokens == SumSeq([i \in DOMAIN turns |-> Metric(turns[i], "input_tokens")])
        output_tokens == SumSeq([i \in DOMAIN turns |-> Metric(turns[i], "output_tokens")])
        cache_read_tokens ==
            SumSeq([i \in DOMAIN turns |-> Metric(turns[i], "cache_read_tokens")])
        asked == SelectSeq(turns, LAMBDA t : IsQuery(t.user_query))
        user_queries == [i \in DOMAIN asked |-> normalize_text(The(asked[i].user_query))]
        messages == Len(asked)
                    + SumSeq([i \in DOMAIN turns |-> Len(MessageSteps(turns[i]))])
        tool_calls ==
            SumSeq([i \in DOMAIN turns |->
                       SumSeq([j \in DOMAIN turns[i].steps |-> StepToolCalls(turns[i].steps[j])])])
        retry_loops ==
            Len(SelectSeq(user_queries, HasRetryToken))
            + SumSeq([i \in DOMAIN turns |->
                       SumSeq([j \in DOMAIN turns[i].steps |-> StepRetries(turns[i].steps[j])])])
        total_tokens == input_tokens + output_tokens + cache_read_tokens
        unique == Cardinality(Range(user_queries))
    IN  [input_tokens |-> input_tokens,
         output_tokens |-> output_tokens,
         uncached_tokens |-> input_tokens + output_tokens,
         cache_creation_tokens |-> 0,
         cache_read_tokens |-> cache_read_tokens,
         total_tokens |-> total_tokens,
         messages |-> messages,
         avg_tokens_per_message |->
            IF messages > 0 THEN Round(100 * total_tokens, messages, "avg_tokens_per_message")
            ELSE 0,
         tool_calls |-> tool_calls,
         retry_loops |-> retry_loops,
         repeated_context_ratio |->
            IF user_queries # << >>
            THEN Max(0, Min(1000, Round(1000 * (Len(user_queries) - unique), Len(user_queries),
                                        "repeated_context_ratio")))
            ELSE 0]

\* sum(int(e.get(k, 0) or 0) for e in entries)
EntrySum(entries, k) == SumSeq([i \in DOMAIN entries |-> Get(entries[i], k, 0)])

merge_claude_summary(ccusage_session, agtrace_summary) ==
    LET has_entries == "entries" \in DOMAIN ccusage_session
        entries == IF has_entries THEN ccusage_session.entries ELSE << >>
        top(k) == Get(ccusage_session, k, 0)
        pick(k) == IF has_entries /\ top(k) = 0 THEN EntrySum(entries, k) ELSE top(k)
        input_tokens == pick("inputTokens")
        output_tokens == pick("outputTokens")
        cache_creation_tokens == pick("cacheCreationTokens")
        cache_read_tokens == pick("cacheReadTokens")
        total_tokens ==
            IF top("totalTokens") = 0
            THEN input_tokens + output_tokens + cache_creation_tokens + cache_read_tokens
            ELSE top("totalTokens")
        messages == Get(agtrace_summary, "messages", 0)
    IN  [input_tokens |-> input_tokens,
         output_tokens |-> output_tokens,
         uncached_tokens |-> input_tokens + output_tokens + cache_creation_tokens,
         cache_creation_tokens |-> cache_creation_tokens,
         cache_read_tokens |-> cache_read_tokens,
         total_tokens |-> total_tokens,
         estimated_cost_usd |-> top("totalCost"),
         messages |-> messages,
         avg_tokens_per_message |->
            IF messages > 0 THEN Round(100 * total_tokens, messages, "avg_tokens_per_message")
            ELSE 0,
         tool_calls |-> Get(agtrace_summary, "tool_calls", 0),
         retry_loops |-> Get(agtrace_summary, "retry_loops", 0),
         repeated_context_ratio |-> Get(agtrace_summary, "repeated_context_ratio", 0)]

(***************************************************************************)
(* SpecCollect: a session's telemetry summarized, then merged with the     *)
(* ccusage record.  call = [turns, ccusage], hist = the agtrace summary,   *)
(* ret = the merged summary.                                               *)
(***************************************************************************)

MaxTurns == 3

Step(kind, text, count) == [kind |-> kind, text |-> text, count |-> count]

TurnKinds ==
    { [metrics |-> Some([input_tokens |-> 100, output_tokens |-> 50,
                         cache_read_tokens |-> 1000]),
       user_query |-> Some(" Fix  the BUG "),
       steps |-> << Step("Message", Some("done"), 0), Step("ToolCall", None, 0) >>],
      [metrics |-> Some([input_tokens |-> 7, output_tokens |-> 0]),
       user_query |-> Some("fix the bug"),
       steps |-> << Step("ToolCallSequence", None, 3) >>],
      [metrics |-> None,
       user_query |-> None,
       steps |-> << Step("Message", Some("the build failed"), 0), Step("Message", None, 0),
                    Step("Thinking", None, 0) >>],
      [metrics |-> Some([cache_read_tokens |-> 5]),
       user_query |-> Some("   "),
       steps |-> << >>],
      [metrics |-> Some([input_tokens |-> 1, output_tokens |-> 1, cache_read_tokens |-> 0]),
       user_query |-> Some("Try again"),
       steps |-> << >>] }

TurnLists == UNION {[1..n -> TurnKinds] : n \in 0..MaxTurns}

\* ccusage session records: complete; without a total; with the details
\* under entries; empty; with a total below its own counters.
CcusageSessions ==
    { [inputTokens |-> 900, outputTokens |-> 300, cacheCreationTokens |-> 500,
       cacheReadTokens |-> 4000, totalTokens |-> 5700, totalCost |-> 31250],
      [inputTokens |-> 900, outputTokens |-> 300, cacheCreationTokens |-> 500,
       cacheReadTokens |-> 4000],
      [sessionId |-> 1, totalTokens |-> 640, totalCost |-> 12,
       entries |-> << [inputTokens |-> 100, outputTokens |-> 20, cacheCreationTokens |-> 10,
                       cacheReadTokens |-> 200],
                      [inputTokens |-> 300, outputTokens |-> 10] >>],
      [inputTokens |-> 50, entries |-> << [inputTokens |-> 100, outputTokens |-> 20] >>],
      [totalCost |-> 0],
      [inputTokens |-> 900, outputTokens |-> 300, cacheCreationTokens |-> 500,
       cacheReadTokens |-> 4000, totalTokens |-> 1200, totalCost |-> 31250] }

InitCollect ==
    /\ call \in [turns : TurnLists, ccusage : CcusageSessions]
    /\ hist = None
    /\ ret = None
    /\ pc = "agtrace"
    /\ trend = Idle
    /\ frame = Idle
    /\ ties \in SUBSET {"avg_tokens_per_message", "repeated_context_ratio"}

SummarizeFromAgtrace ==
    /\ pc = "agtrace"
    /\ hist' = Some(summarize_from_agtrace(call.turns))
    /\ pc' = "ccusage"
    /\ UNCHANGED <<trend, frame, call, ret, ties>>

MergeClaudeSummary ==
    /\ pc = "ccusage"
    /\ ret' = Some(merge_claude_summary(call.ccusage, The(hist)))
    /\ pc' = "done"
    /\ UNCHANGED <<trend, frame, hist, call, ties>>

NextCollect == SummarizeFromAgtrace \/ MergeClaudeSummary

SpecCollect == InitCollect /\ [][NextCollect]_vars

UncachedAddsUp(s) ==
    s.uncached_tokens = s.input_tokens + s.output_tokens + s.cache_creation_tokens

\* avg_tokens_per_message is total_tokens / messages to the two decimals
\* the summary keeps, and 0 without messages.
AvgIsPerMessage(s) ==
    IF s.messages > 0
    THEN 2 * Abs(s.avg_tokens_per_message * s.messages - 100 * s.total_tokens) <= s.messages
    ELSE s.avg_tokens_per_message = 0

RatioInRange(s) == s.repeated_context_ratio >= 0 /\ s.repeated_context_ratio <= 1000

SummaryInvariant(s) ==
    /\ UncachedAddsUp(s)
    /\ s.total_tokens >= s.uncached_tokens
    /\ AvgIsPerMessage(s)
    /\ RatioInRange(s)

\* C25: every summary summarize_from_agtrace or merge_claude_summary
\* returns has uncached_tokens = input + output + cache_creation,
\* total_tokens >= uncached_tokens, avg_tokens_per_message = total_tokens /
\* messages (0 without messages) and repeated_context_ratio within [0, 1].
C25_SummariesKeepInvariants ==
    /\ ~IsNone(hist) => SummaryInvariant(The(hist))
    /\ ~IsNone(ret) => SummaryInvariant(The(ret))

\* What holds of both: the summary of summarize_from_agtrace has all four
\* properties, the merged one all but total_tokens >= uncached_tokens.
AgtraceSummaryKeepsInvariants ==
    /\ ~IsNone(hist) => SummaryInvariant(The(hist))
    /\ ~IsNone(ret) =>
         (UncachedAddsUp(The(ret)) /\ AvgIsPerMessage(The(ret)) /\ RatioInRange(The(ret)))

\* The merged total is at least the uncached tokens when ccusage gave no
\* total of its own.
MergedTotalWhenComputed ==
    (~IsNone(ret) /\ Get(call.ccusage, "totalTokens", 0) = 0)
    => The(ret).total_tokens >= The(ret).uncached_tokens

(***************************************************************************)
(* The session-size driver (SpecDrivers)                                   *)
(***************************************************************************)

SessionSizeAt(i) ==
    /\ TheDrivers[i].driver = "Session size"
    /\ TheDrivers[i].estimated_token_impact
         = Get(call.summary, "uncached_tokens", call.summary["total_tokens"])

\* C26: the list build_drivers returns has the "Session size" driver, its
\* impact the summary's uncached_tokens, also when all six drivers were
\* found and one is cut; the "No dominant driver detected" entry is never
\* returned.
C26_SessionSizeAlwaysListed ==
    Attributed =>
        /\ \E i \in DOMAIN TheDrivers : SessionSizeAt(i)
        /\ \A i \in DOMAIN TheDrivers : TheDrivers[i].driver # "No dominant driver detected"

\* All six drivers found, four of them larger than the session size: it is
\* the last of the five returned.
C26_Witness ==
    /\ Attributed
    /\ Len(DriverCandidates(call.summary)) = 6
    /\ Len(TheDrivers) = 5
    /\ SessionSizeAt(5)

(***************************************************************************)
(* SpecIsolation: the baseline of one session read from two ledgers that   *)
(* have the same rows of the session's group and differ in rows of other   *)
(* groups.  call = the session and the ledger, hist = the baseline read    *)
(* from the first ledger and the ledger's length, frame = the number of    *)
(* rows of other groups put in or taken out so far, ret = the baseline     *)
(* read from the second ledger.                                            *)
(***************************************************************************)

MaxOwn == 2
MaxOther == 2

\* A row of the session's own group, with low (v = 1) or high (v = 2) values.
OwnRow(run_type, v) == BaselineRow(run_type, v, header)

\* Rows of other groups: another project, another source, the other run type.
OtherRows(run_type) ==
    { BaselineRow("other", 1, header),
      [BaselineRow(run_type, 2, header) EXCEPT !.source = Text("claude")],
      BaselineRow(IF run_type = "real" THEN "smoke" ELSE "real", 1, header) }

\* The rows of the group: up to MaxOwn of them, or six (more than the five
\* a baseline is taken from).
OwnLedgers(run_type) ==
    UNION {[1..n -> {OwnRow(run_type, 1), OwnRow(run_type, 2)}] : n \in 0..MaxOwn}
    \cup { [i \in 1..6 |-> OwnRow(run_type, IF i \in {1, 4, 5} THEN 2 ELSE 1)] }

InsertAt(seq, p, x) == SubSeq(seq, 1, p - 1) \o << x >> \o SubSeq(seq, p, Len(seq))
RemoveAt(seq, p) == SubSeq(seq, 1, p - 1) \o SubSeq(seq, p + 1, Len(seq))

InitIsolation ==
    /\ \E rt \in {"real", "smoke"} :
         call \in [trend_rows : OwnLedgers(rt), project_slug : {"alpha"},
                   source : {"codex"}, run_type : {rt},
                   summary : {[uncached_tokens |-> 10, total_tokens |-> 12,
                               estimated_cost_usd |-> 5]},
                   scores : {[efficiency |-> 8000]}]
    /\ hist = None
    /\ ret = None
    /\ frame = 0
    /\ pc = "first"
    /\ trend = Idle
    /\ ties \in {{}, {"baseline_median", "delta"}}

\* Another session's run appended or found anywhere in the ledger.
InsertOther ==
    /\ pc \in {"first", "second"}
    /\ frame < MaxOther
    /\ \E p \in 1..(Len(call.trend_rows) + 1), r \in OtherRows(call.run_type) :
         call' = [call EXCEPT !.trend_rows = InsertAt(call.trend_rows, p, r)]
    /\ frame' = frame + 1
    /\ UNCHANGED <<trend, pc, hist, ret, ties>>

RemoveOther ==
    /\ pc = "second"
    /\ frame < MaxOther
    /\ \E p \in DOMAIN call.trend_rows :
         /\ call.trend_rows[p] \in OtherRows(call.run_type)
         /\ call' = [call EXCEPT !.trend_rows = RemoveAt(call.trend_rows, p)]
    /\ frame' = frame + 1
    /\ UNCHANGED <<trend, pc, hist, ret, ties>>

BaselineFirst ==
    /\ pc = "first"
    /\ hist' = Some([rows |-> Len(call.trend_rows), baseline |-> BaselineOf(call.trend_rows)])
    /\ pc' = "second"
    /\ UNCHANGED <<trend, frame, call, ret, ties>>

BaselineSecond ==
    /\ pc = "second"
    /\ ret' = Some([baseline |-> BaselineOf(call.trend_rows)])
    /\ pc' = "done"
    /\ UNCHANGED <<trend, frame, hist, call, ties>>

NextIsolation == InsertOther \/ RemoveOther \/ BaselineFirst \/ BaselineSecond

SpecIsolation == InitIsolation /\ [][NextIsolation]_vars

ComparedTwice == pc = "done" /\ ~IsNone(hist) /\ ~IsNone(ret)

\* C27: two ledgers with the same rows of the session's (project, source,
\* run_type) in the same order, differing in rows of other groups only,
\* give the session the same baseline_delta.
C27_OtherGroupsLeaveBaseline ==
    ComparedTwice => The(ret).baseline = The(hist).baseline

\* Six rows of the group in both ledgers; the first ledger has one row of
\* another group among them, the second two, one of another source between
\* the group's last rows; both baselines are over five rows.
C27_Witness ==
    /\ ComparedTwice
    /\ The(hist).rows = 7
    /\ Len(call.trend_rows) = 8
    /\ call.trend_rows[7].source = Text("claude")
    /\ ~IsNone(The(ret).baseline)
    /\ The(The(ret).baseline).sample_size = 5

(***************************************************************************)
(* The shape of the trend file after appends (SpecCsv)                     *)
(***************************************************************************)

\* The header line of the current column set, as the reader returns it.
HeaderRecord == [i \in DOMAIN header |-> << header[i] >>]

\* C28: after any sequence of append_trend_row calls on a file found
\* missing, empty, with a header only, with an older header or with the
\* current one, the file has one header line, the current 18 columns in
\* order, and every data row has exactly those columns.
C28_OneCurrentHeaderAfterAppends ==
    hist >= 1 =>
        LET records == CsvRecords(frame.text)
            d == DictReader(frame.text)
        IN  /\ frame.exists
            /\ Len(records) = Len(read_trend_rows(trend)) + 1
            /\ records[1] = HeaderRecord
            /\ d.fieldnames = header
            /\ \A j \in 2..Len(records) :
                 /\ Len(records[j]) = Len(header)
                 /\ records[j] # HeaderRecord
            /\ \A j \in DOMAIN d.rows : DOMAIN d.rows[j] = Range(header)
            /\ trend.fields = header
            /\ \A j \in DOMAIN trend.rows : DOMAIN trend.rows[j] = Range(header)

\* Two appends to a file that had two rows under an older header: four
\* rows under the current one, the first of them with the run_type the
\* migration gave it.
C28_Witness ==
    /\ hist = 2
    /\ pc = "appended"
    /\ Len(CsvRecords(frame.text)) = 5
    /\ DictReader(frame.text).rows[1]["run_type"] = << "real" >>
    /\ DictReader(frame.text).rows[1]["session_reference_id"] = << >>
    /\ DictReader(frame.text).rows[4]["run_type"] = << "workflow" >>

(***************************************************************************)
(* SpecPipeline: review-session.py writes its report to --out, then        *)
(* ci-verdict-gate.py reads that file.                                     *)
(* call = the run (summary collected, run type, --format, whether the      *)
(* collection succeeded), frame = the file at --out, hist = main's return  *)
(* value, ret = the gate's exit status.                                    *)
(***************************************************************************)

\* The characters of the words main writes for run_type and verdict.
Letters(s) ==
    CASE s = "smoke" -> T_smoke
      [] s = "workflow" -> T_workflow
      [] s = "real" -> T_real
      [] s = "pass" -> T_pass
      [] s = "warn" -> T_warn
      [] s = "fail" -> T_fail
      [] OTHER -> << s >>

\* json.dumps(report) read back by json.loads: what the gate looks at.
json_dumps(report) ==
    JsonReport(Some(JString(Letters(report.run_type))),
               Some(JObject(Some(JString(Letters(report.evaluation.verdict))))))

\* The file at --out: the JSON text, or for --format markdown the text of
\* to_markdown, which is not JSON.
WrittenReport(report, format) == IF format = "json" THEN json_dumps(report) ELSE NotJson

\* The summaries the collectors hand to main (they have uncached_tokens).
PipelineSummaries == {s \in EvalSummaries : "uncached_tokens" \in DOMAIN s}

PipelineArgs(run_type, summary, collected) ==
    [project_slug |-> "alpha", run_type |-> run_type,
     session_reference_id |-> Text("ref"),
     trend_file |-> FALSE, out |-> TRUE,
     max_tokens |-> None, max_cost_usd |-> None,
     timebox_minutes |-> None, elapsed_minutes |-> None,
     collect |-> IF collected
                 THEN Some([source |-> IF "estimated_cost_usd" \in DOMAIN summary
                                       THEN "claude" ELSE "codex",
                            summary |-> summary,
                            source_reliability |-> IF "estimated_cost_usd" \in DOMAIN summary
                                                   THEN 95 ELSE 80,
                            session_id |-> Text("sid")])
                 ELSE None]

InitPipeline ==
    /\ call \in [summary : PipelineSummaries, run_type : RunTypes,
                 format : {"json", "markdown"}, collected : BOOLEAN]
    /\ frame = NoReport
    /\ hist = None
    /\ ret = None
    /\ pc = "review"
    /\ trend = MissingFile
    /\ ties = {}

ReviewSession ==
    /\ pc = "review"
    /\ LET r == main(PipelineArgs(call.run_type, call.summary, call.collected), trend)
       IN  /\ hist' = Some(r.rc)
           /\ trend' = r.file
           /\ frame' = IF r.rc = 0 THEN WrittenReport(The(r.report), call.format) ELSE frame
    /\ pc' = "gate"
    /\ UNCHANGED <<call, ret, ties>>

GateReport ==
    /\ pc = "gate"
    /\ ret' = Some(ExitStatus(ci_verdict_gate_main(frame)))
    /\ pc' = "done"
    /\ UNCHANGED <<trend, frame, hist, call, ties>>

NextPipeline == ReviewSession \/ GateReport

SpecPipeline == InitPipeline /\ [][NextPipeline]_vars

\* main produced a report and the gate has read the file.
GatedReport == pc = "done" /\ hist = Some(0) /\ ~IsNone(ret)

\* One of the three checked values of the run is strictly above the fail
\* limit of its run type.
AboveFailLimit ==
    LET t == run_type_thresholds(call.run_type)
    IN  \/ call.summary.uncached_tokens > t.fail_uncached_tokens
        \/ Get(call.summary, "estimated_cost_usd", 0) > t.fail_cost_usd
        \/ call.summary.retry_loops > t.fail_retry_loops

GateFollowsLimits ==
    /\ The(ret) # 2
    /\ call.run_type = "smoke" => The(ret) = 0
    /\ call.run_type # "smoke" => The(ret) = (IF AboveFailLimit THEN 1 ELSE 0)

\* C29 as stated: for every report main produces the gate never exits 2; it
\* exits 0 for a smoke run and, for a workflow or real run, 1 iff one of
\* uncached_tokens, estimated_cost_usd, retry_loops is strictly above the
\* run type's fail limit and 0 otherwise.
C29_GateNeverErrsOnReports ==
    GatedReport => GateFollowsLimits

\* C29, amended: the same for every report main writes as JSON (--format
\* json, the default).
C29_GateNeverErrsOnJsonReports ==
    (GatedReport /\ call.format = "json") => GateFollowsLimits

\* A real run written as JSON whose retries alone are above the fail limit:
\* the gate exits 1.
C29_Witness ==
    /\ GatedReport
    /\ call.format = "json"
    /\ call.run_type = "real"
    /\ call.summary.retry_loops = 9
    /\ call.summary.uncached_tokens = 300000
    /\ ~("estimated_cost_usd" \in DOMAIN call.summary)
    /\ The(ret) = 1

(***************************************************************************)
(* Percent and overage of a budget check (SpecBudget)                      *)
(***************************************************************************)

\* The adherence reports an overage under `over` and a percent of at least
\* 100 under `percent`, or no overage.
OverageHasPercent(numbers, over, percent) ==
    (over \in DOMAIN numbers /\ numbers[over] > 0)
    => (percent \in DOMAIN numbers /\ numbers[percent] >= 10000)

PercentCoversOverage ==
    LET numbers == The(TheBudget).adherence.numbers
    IN  /\ OverageHasPercent(numbers, "tokens_over_budget", "tokens_percent_of_budget")
        /\ OverageHasPercent(numbers, "cost_over_budget_usd", "cost_percent_of_budget")

\* C30 as stated: for every supplied --max-tokens, tokens_over_budget > 0
\* comes with tokens_percent_of_budget >= 100, and for every supplied
\* --max-cost-usd, cost_over_budget_usd > 0 comes with
\* cost_percent_of_budget >= 100.
C30_OverageMeansPercentAtLeast100 ==
    (Budgeted /\ ~IsNone(TheBudget)) => PercentCoversOverage

\* C30, amended: the same for the limits that are positive; a limit of 0 or
\* below has a percent of 0 whatever the overage.
C30_OverageMeansPercentForPositiveLimits ==
    (Budgeted /\ ~IsNone(TheBudget)
     /\ (~IsNone(call.args.max_tokens) => The(call.args.max_tokens) > 0)
     /\ (~IsNone(call.args.max_cost_usd) => The(call.args.max_cost_usd) > 0))
    => PercentCoversOverage

\* A token limit and a cost limit, both positive and both exceeded.
C30_Witness ==
    /\ Budgeted
    /\ ~IsNone(TheBudget)
    /\ call.args.max_tokens = Some(1000)
    /\ call.args.max_cost_usd = Some(10000)
    /\ The(TheBudget).adherence.numbers["tokens_over_budget"] > 0
    /\ The(TheBudget).adherence.numbers["cost_over_budget_usd"] > 0
    /\ The(TheBudget).adherence.numbers["tokens_percent_of_budget"] > 10000
    /\ The(TheBudget).adherence.numbers["cost_percent_of_budget"] > 10000


====
